---- MODULE Spec2Model ----
(***************************************************************************)
(* Model of the Kakao / Naver geocoding layer: the two adapters of         *)
(* geocoding.py, the legacy Kakao adapter of kakao_geocoding.py, the       *)
(* provider dispatch cache and the batch runners.                          *)
(*                                                                         *)
(* Python values are modelled as sequences of one-character strings: the   *)
(* empty string is <<>>; None, NaN, an absent dict key and a float are     *)
(* tagged sequences whose first element is a longer token, so they can     *)
(* never be confused with a Python string.                                 *)
(***************************************************************************)
EXTENDS Integers, Sequences, FiniteSets, TLC

VARIABLES
    env,                  \* os.environ: the three credential variables
    config,               \* the local config.py module, if any
    heap,                 \* adapter objects constructed so far
    _provider_instances,  \* geocoding._provider_instances
    _api_instance,        \* kakao_geocoding._api_instance
    returned,             \* instances handed out by the dispatch functions
    lastGet,              \* outcome of the latest dispatch / constructor call
    call,                 \* outcome of the latest single-record adapter call
    requests,             \* number of HTTP GETs issued so far
    pass                  \* the batch pass in progress, if any

dispatchVars == <<env, config, heap, _provider_instances, _api_instance,
                  returned, lastGet>>
vars == <<env, config, heap, _provider_instances, _api_instance,
          returned, lastGet, call, requests, pass>>

----------------------------------------------------------------------------
(* Bounds *)

MaxPad == 1          \* blanks put before / after a provider name
MaxDirect == 1       \* adapters constructed directly, outside the dispatch
MaxRows == 2         \* rows of a batch table
MaxDocs == 2         \* entries of a vendor result array

----------------------------------------------------------------------------
(* Python values *)

None    == <<"None">>       \* Python None
NaN     == <<"NaN">>        \* float('nan') / pandas missing value
Missing == <<"Missing">>    \* key absent from a dict / attribute absent
EmptyStr == <<>>

\* bool(v) is False for None, "" (and for NaN-free values used here)
Falsy(v) == v = None \/ v = EmptyStr \/ v = Missing

\* pd.isna(v)
isna(v) == v = None \/ v = NaN

Whitespace == {" "}

RECURSIVE lstrip(_)
lstrip(s) == IF s # <<>> /\ Head(s) \in Whitespace THEN lstrip(Tail(s)) ELSE s

RECURSIVE rstrip(_)
rstrip(s) ==
    IF s # <<>> /\ s[Len(s)] \in Whitespace
    THEN rstrip(SubSeq(s, 1, Len(s) - 1)) ELSE s

\* str.strip()
strip(s) == rstrip(lstrip(s))

lowerChar(c) ==
    CASE c = "K" -> "k" [] c = "A" -> "a" [] c = "O" -> "o"
      [] c = "N" -> "n" [] c = "V" -> "v" [] c = "E" -> "e"
      [] c = "R" -> "r" [] c = "B" -> "b" [] c = "I" -> "i"
      [] c = "G" -> "g" [] OTHER -> c

\* str.lower()
lower(s) == [i \in 1..Len(s) |-> lowerChar(s[i])]

kakao == <<"k", "a", "k", "a", "o">>
naver == <<"n", "a", "v", "e", "r">>

----------------------------------------------------------------------------
(* Credentials: environment variables and the optional config module *)

Key1 == <<"K", "1">>
Key2 == <<"K", "2">>

EnvNames == {"KAKAO_REST_API_KEY", "NAVER_MAPS_API_KEY_ID", "NAVER_MAPS_API_KEY"}

\* os.getenv(name): None when unset, otherwise the (possibly empty) string
EnvVals == {None, EmptyStr, Key1}
Envs == [EnvNames -> EnvVals]

\* config.py: absent, or a module in which each name is undefined, empty or set
ConfigVals == {Missing, EmptyStr, Key2}
Configs ==
    {[present |-> FALSE, attrs |-> [n \in EnvNames |-> Missing]]} \cup
    {[present |-> TRUE, attrs |-> a] : a \in [EnvNames -> ConfigVals]}

getenv(name) == env[name]

\* Outcome of a constructor: either an exception or the fields of the object
Raised(exc) == [raised |-> exc, api_key |-> None, api_key_id |-> None]
Built(id, key) == [raised |-> "no", api_key |-> key, api_key_id |-> id]

\* "from config import KAKAO_REST_API_KEY": ImportError when the module or
\* the name does not exist, otherwise the value whatever it is
KakaoConfigFallback ==
    IF ~config.present \/ config.attrs["KAKAO_REST_API_KEY"] = Missing
    THEN Raised("ValueError")
    ELSE Built(None, config.attrs["KAKAO_REST_API_KEY"])

\* KakaoGeocodingAPI.__init__(api_key)
KakaoInit(api_key) ==
    IF api_key = None
    THEN LET k == getenv("KAKAO_REST_API_KEY")
         IN  IF Falsy(k) THEN KakaoConfigFallback ELSE Built(None, k)
    ELSE Built(None, api_key)

\* getattr(config, name, None)
getattrConfig(name) ==
    IF config.attrs[name] = Missing THEN None ELSE config.attrs[name]

\* a or b
PyOr(a, b) == IF Falsy(a) THEN b ELSE a

\* the final "if not api_key_id or not api_key: raise ValueError"
NaverCheck(id, key) ==
    IF Falsy(id) \/ Falsy(key) THEN Raised("ValueError") ELSE Built(id, key)

\* NaverGeocodingAPI.__init__(api_key_id, api_key)
NaverInit(api_key_id, api_key) ==
    LET id1  == IF api_key_id = None THEN getenv("NAVER_MAPS_API_KEY_ID")
                ELSE api_key_id
        key1 == IF api_key = None THEN getenv("NAVER_MAPS_API_KEY")
                ELSE api_key
        useConfig == (Falsy(id1) \/ Falsy(key1)) /\ config.present
        id2  == IF useConfig
                THEN PyOr(id1, getattrConfig("NAVER_MAPS_API_KEY_ID")) ELSE id1
        key2 == IF useConfig
                THEN PyOr(key1, getattrConfig("NAVER_MAPS_API_KEY")) ELSE key1
    IN  NaverCheck(id2, key2)

----------------------------------------------------------------------------
(* Dispatch: one cached adapter per provider *)

Providers == {kakao, naver}

Pad(n) == [i \in 1..n |-> " "]

ProviderWords ==
    { kakao, <<"K", "A", "K", "A", "O">>, <<"K", "a", "k", "a", "o">>,
      naver, <<"N", "A", "V", "E", "R">>,
      <<"B", "i", "n", "g">>, <<"k", "a", " ", "k", "a", "o">>, EmptyStr }

\* the provider arguments tried: None, and every word with 0..MaxPad blanks
\* on either side
ProviderNames ==
    {None} \cup
    {Pad(l) \o w \o Pad(r) : l \in 0..MaxPad, r \in 0..MaxPad, w \in ProviderWords}

\* variant: any name other than "naver" falls back to the default provider
NormaliseDefaulting(provider) ==
    IF lower(strip(PyOr(provider, kakao))) = naver THEN naver ELSE kakao

\* p = (provider or "kakao").strip().lower()
Normalise(provider) == lower(strip(PyOr(provider, kakao)))

\* p in ("kakao", "naver")
Supported(p) == p \in Providers

\* variant: the cache is never consulted
CachedNever(p) == FALSE

\* p in _provider_instances
Cached(p) == _provider_instances[p] # 0

\* the object a successful constructor call leaves on the heap
NewObject(cls, r, via) ==
    [cls |-> cls, api_key |-> r.api_key, api_key_id |-> r.api_key_id, via |-> via]

\* KakaoGeocodingAPI() / NaverGeocodingAPI() as called by _get_provider
ConstructFor(p) == IF p = kakao THEN KakaoInit(None) ELSE NaverInit(None, None)

\* variant: the cache entry is stored before the constructor has succeeded,
\* so a failed construction leaves a half-built object in the cache
GetProviderEffectCachingFailure(provider) ==
    LET p == Normalise(provider) IN
    IF ~Supported(p)
    THEN /\ lastGet' = [fn |-> "_get_provider", name |-> provider,
                        status |-> "ValueError", inst |-> 0, built |-> FALSE]
         /\ UNCHANGED <<heap, _provider_instances, _api_instance, returned>>
    ELSE IF Cached(p)
    THEN /\ lastGet' = [fn |-> "_get_provider", name |-> provider,
                        status |-> "returned", inst |-> _provider_instances[p],
                        built |-> FALSE]
         /\ returned' = returned \cup
                {[cache |-> "geocoding", p |-> p, inst |-> _provider_instances[p]]}
         /\ UNCHANGED <<heap, _provider_instances, _api_instance>>
    ELSE LET r == ConstructFor(p) IN
         /\ heap' = Append(heap, NewObject(p, r, "geocoding"))
         /\ _provider_instances' =
               [_provider_instances EXCEPT ![p] = Len(heap) + 1]
         /\ UNCHANGED _api_instance
         /\ IF r.raised # "no"
            THEN /\ lastGet' = [fn |-> "_get_provider", name |-> provider,
                                status |-> "CredentialError", inst |-> 0,
                                built |-> FALSE]
                 /\ UNCHANGED returned
            ELSE /\ returned' = returned \cup
                       {[cache |-> "geocoding", p |-> p, inst |-> Len(heap) + 1]}
                 /\ lastGet' = [fn |-> "_get_provider", name |-> provider,
                                status |-> "returned", inst |-> Len(heap) + 1,
                                built |-> TRUE]

\* _get_provider(provider): effect on the cache, the heap and the call record
GetProviderEffect(provider) ==
    LET p == Normalise(provider) IN
    IF ~Supported(p)
    THEN /\ lastGet' = [fn |-> "_get_provider", name |-> provider,
                        status |-> "ValueError", inst |-> 0, built |-> FALSE]
         /\ UNCHANGED <<heap, _provider_instances, _api_instance, returned>>
    ELSE IF Cached(p)
    THEN /\ lastGet' = [fn |-> "_get_provider", name |-> provider,
                        status |-> "returned", inst |-> _provider_instances[p],
                        built |-> FALSE]
         /\ returned' = returned \cup
                {[cache |-> "geocoding", p |-> p, inst |-> _provider_instances[p]]}
         /\ UNCHANGED <<heap, _provider_instances, _api_instance>>
    ELSE LET r == ConstructFor(p) IN
         IF r.raised # "no"
         THEN /\ lastGet' = [fn |-> "_get_provider", name |-> provider,
                             status |-> "CredentialError", inst |-> 0,
                             built |-> FALSE]
              /\ UNCHANGED <<heap, _provider_instances, _api_instance, returned>>
         ELSE /\ heap' = Append(heap, NewObject(p, r, "geocoding"))
              /\ _provider_instances' =
                    [_provider_instances EXCEPT ![p] = Len(heap) + 1]
              /\ returned' = returned \cup
                    {[cache |-> "geocoding", p |-> p, inst |-> Len(heap) + 1]}
              /\ lastGet' = [fn |-> "_get_provider", name |-> provider,
                             status |-> "returned", inst |-> Len(heap) + 1,
                             built |-> TRUE]
              /\ UNCHANGED _api_instance

\* a call of _get_provider from outside a batch pass
GetProvider(provider) ==
    /\ GetProviderEffect(provider)
    /\ UNCHANGED <<env, config, call, requests, pass>>

\* kakao_geocoding._get_api_instance(): effect on the legacy singleton
GetApiInstanceEffect ==
    IF _api_instance # 0
    THEN /\ lastGet' = [fn |-> "_get_api_instance", name |-> None,
                        status |-> "returned", inst |-> _api_instance,
                        built |-> FALSE]
         /\ returned' = returned \cup
                {[cache |-> "kakao_geocoding", p |-> kakao, inst |-> _api_instance]}
         /\ UNCHANGED <<heap, _provider_instances, _api_instance>>
    ELSE LET r == KakaoInit(None) IN
         IF r.raised # "no"
         THEN /\ lastGet' = [fn |-> "_get_api_instance", name |-> None,
                             status |-> "CredentialError", inst |-> 0,
                             built |-> FALSE]
              /\ UNCHANGED <<heap, _provider_instances, _api_instance, returned>>
         ELSE /\ heap' = Append(heap, NewObject(kakao, r, "kakao_geocoding"))
              /\ _api_instance' = Len(heap) + 1
              /\ returned' = returned \cup
                    {[cache |-> "kakao_geocoding", p |-> kakao, inst |-> Len(heap) + 1]}
              /\ lastGet' = [fn |-> "_get_api_instance", name |-> None,
                             status |-> "returned", inst |-> Len(heap) + 1,
                             built |-> TRUE]
              /\ UNCHANGED _provider_instances

GetApiInstance ==
    /\ GetApiInstanceEffect
    /\ UNCHANGED <<env, config, call, requests, pass>>

DirectCount == Cardinality({i \in 1..Len(heap) : heap[i].via = "direct"})

\* an adapter constructed by user code with explicit (or omitted) credentials
Construct(cls, api_key_id, api_key) ==
    /\ DirectCount < MaxDirect
    /\ LET r == IF cls = kakao THEN KakaoInit(api_key)
                ELSE NaverInit(api_key_id, api_key) IN
       IF r.raised # "no"
       THEN /\ lastGet' = [fn |-> "__init__", name |-> cls,
                           status |-> "CredentialError", inst |-> 0,
                           built |-> FALSE]
            /\ UNCHANGED heap
       ELSE /\ heap' = Append(heap, NewObject(cls, r, "direct"))
            /\ lastGet' = [fn |-> "__init__", name |-> cls,
                           status |-> "returned", inst |-> Len(heap) + 1,
                           built |-> TRUE]
    /\ UNCHANGED <<env, config, _provider_instances, _api_instance, returned,
                   call, requests, pass>>

NoCall == [stage |-> "none"]
NoPass == [pc |-> "idle"]

\* credential settings the dispatch and batch specifications start from:
\* each variable unset or set, the two Naver variables alike; config.py
\* absent, or defining the three names alike
DispatchEnvs ==
    {e \in [EnvNames -> {None, Key1}] :
        e["NAVER_MAPS_API_KEY_ID"] = e["NAVER_MAPS_API_KEY"]}
DispatchConfigs ==
    {c \in Configs : \A n \in EnvNames : c.attrs[n] = c.attrs["KAKAO_REST_API_KEY"]}

\* module import: empty caches, nothing constructed
InitModule ==
    /\ heap = <<>>
    /\ _provider_instances = [p \in Providers |-> 0]
    /\ _api_instance = 0
    /\ returned = {}
    /\ lastGet = [fn |-> "none", name |-> None, status |-> "none", inst |-> 0,
                  built |-> FALSE]
    /\ requests = 0

InitDispatch ==
    /\ env \in DispatchEnvs
    /\ config \in DispatchConfigs
    /\ InitModule
    /\ call = NoCall
    /\ pass = NoPass

\* every combination of the credential sources, for the constructors
InitConstruct ==
    /\ env \in Envs
    /\ config \in Configs
    /\ InitModule
    /\ call = NoCall
    /\ pass = NoPass

ArgVals == {None, EmptyStr, Key1}

NextDispatch ==
    \/ \E n \in ProviderNames : GetProvider(n)
    \/ GetApiInstance

SpecDispatch == InitDispatch /\ [][NextDispatch]_vars

NextConstruct ==
    \/ \E k \in ArgVals : Construct(kakao, None, k)
    \/ \E i \in ArgVals, k \in ArgVals : Construct(naver, i, k)

SpecConstruct == InitConstruct /\ [][NextConstruct]_vars

\* the caller's process changes its credential variables between two
\* dispatch calls; os.getenv reads them afresh in every constructor call
Setenv(e) ==
    /\ e # env
    /\ env' = e
    /\ UNCHANGED <<config, heap, _provider_instances, _api_instance, returned,
                   lastGet, call, requests, pass>>

\* the provider arguments of the retried calls: the default, the two
\* identifiers (one of them in two spellings, with leading blanks) and an
\* unsupported name
RetryNames ==
    {None, kakao, <<"B", "i", "n", "g">>} \cup
    {Pad(l) \o w : l \in 0..MaxPad, w \in {naver, <<"N", "A", "V", "E", "R">>}}

NextRetry ==
    \/ \E n \in RetryNames : GetProvider(n)
    \/ GetApiInstance
    \/ \E e \in DispatchEnvs : Setenv(e)

\* dispatch calls interleaved with changes of the environment
SpecRetry == InitDispatch /\ [][NextRetry]_vars

----------------------------------------------------------------------------
(* HTTP: what requests.get can produce for one GET *)

\* a parsed JSON object is a function from its possible keys to values;
\* a key the object does not have maps to Missing.  d.get(k, default):
Get(d, k, default) == IF d[k] = Missing THEN default ELSE d[k]

\* the body of a response: text that is not JSON, JSON that is not an
\* object, or an object whose result array is absent, null or a list
Body(shape, docs) == [shape |-> shape, docs |-> docs]
NoBody == Body("unparseable", <<>>)

\* no request was made
NoHttp == [kind |-> "none", status |-> 0, body |-> NoBody]

\* a transport failure (connection error, timeout) or a response
Transport == [kind |-> "exception", status |-> 0, body |-> NoBody]
Response(status, body) == [kind |-> "response", status |-> status, body |-> body]

ErrorStatuses == {401, 403, 500}
\* error responses carry a JSON error object or an unparseable page
ErrorBodies == {NoBody, Body("error", <<>>)}

HttpOutcomes(okBodies) ==
    {Transport} \cup
    {Response(200, b) : b \in okBodies} \cup
    {Response(st, b) : st \in ErrorStatuses, b \in ErrorBodies}

\* what the body of a try block did: completed with a return value (None
\* when it fell through), or stopped with an exception
Returns(v) == [exc |-> "none", value |-> v]
Throws(exc) == [exc |-> exc, value |-> [none |-> TRUE, d |-> <<>>]]

\* the value of a single-record call: None or a result mapping
ResultNone == [none |-> TRUE, d |-> <<>>]
ResultDict(d) == [none |-> FALSE, d |-> d]

\* what a call did as seen by its caller
Outcome(result, raised, requested, diag) ==
    [result |-> result, raised |-> raised, requested |-> requested, diag |-> diag]

\* response.raise_for_status() followed by response.json(): the exception
\* raised, if any
StatusAndParse(http) ==
    IF http.kind = "exception" THEN "ConnectionError"
    ELSE IF http.status >= 400 THEN "HTTPError"
    ELSE IF http.body.shape = "unparseable" THEN "ValueError"
    ELSE "none"

\* data.get("documents", []) on the parsed body: AttributeError when the
\* body is not an object; the list, or an empty / null value otherwise
ArrayOf(body) ==
    IF body.shape = "nondict" THEN [exc |-> "AttributeError", list |-> <<>>]
    ELSE IF body.shape = "list" THEN [exc |-> "none", list |-> body.docs]
    ELSE [exc |-> "none", list |-> <<>>]

----------------------------------------------------------------------------
(* float() *)

Digits == {"0", "1", "2", "3", "4", "5", "6", "7", "8", "9"}

RECURSIVE dropLeadingZeros(_)
dropLeadingZeros(s) ==
    IF Len(s) > 1 /\ Head(s) = "0" THEN dropLeadingZeros(Tail(s)) ELSE s

RECURSIVE dropTrailingZeros(_)
dropTrailingZeros(s) ==
    IF s # <<>> /\ s[Len(s)] = "0"
    THEN dropTrailingZeros(SubSeq(s, 1, Len(s) - 1)) ELSE s

DotsOf(s) == {i \in 1..Len(s) : s[i] = "."}

\* the text is an unsigned decimal literal: digits with at most one point
IsDecimal(s) ==
    /\ \A i \in 1..Len(s) : s[i] \in Digits \cup {"."}
    /\ \E i \in 1..Len(s) : s[i] \in Digits
    /\ Cardinality(DotsOf(s)) <= 1

\* the float a decimal literal denotes, written canonically: "012.50" and
\* "12.5" denote the same float
FloatOf(s) ==
    LET dot  == IF DotsOf(s) = {} THEN Len(s) + 1 ELSE CHOOSE i \in DotsOf(s) : TRUE
        ip   == dropLeadingZeros(IF dot = 1 THEN <<"0">> ELSE SubSeq(s, 1, dot - 1))
        fp   == dropTrailingZeros(SubSeq(s, dot + 1, Len(s)))
    IN  <<"float">> \o ip \o (IF fp = <<>> THEN <<>> ELSE <<".">> \o fp)

Zero == <<"float", "0">>

\* float(v) for v a string (surrounding blanks allowed), None or absent:
\* the float, or the exception raised
PyFloat(v) ==
    IF v = None \/ v = Missing THEN [exc |-> "TypeError", value |-> Zero]
    ELSE IF IsDecimal(strip(v)) THEN [exc |-> "none", value |-> FloatOf(strip(v))]
    ELSE [exc |-> "ValueError", value |-> Zero]

\* float(doc.get(k, 0) or 0): an absent, null or empty value counts as 0
FloatOrZero(v) == IF Falsy(v) THEN [exc |-> "none", value |-> Zero] ELSE PyFloat(v)

\* float(doc.get(k, 0)): only an absent value counts as 0
FloatDefaultZero(v) == IF v = Missing THEN [exc |-> "none", value |-> Zero] ELSE PyFloat(v)

----------------------------------------------------------------------------
(* Forward geocoding: address -> coordinates *)

\* every exception the modelled code paths can raise derives from Exception
ExceptionClasses ==
    {"HTTPError", "ConnectionError", "ValueError", "AttributeError",
     "TypeError", "OSError"}

\* variant: only the HTTPError handler is present
CaughtHTTPErrorOnly(exc) == exc = "HTTPError"

\* variant: a failed file write is not caught
CaughtExceptOSError(exc) == exc \in ExceptionClasses \ {"OSError"}

\* the handlers "except requests.exceptions.HTTPError" / "except Exception"
\* of the adapter methods together catch exc
Caught(exc) == exc \in ExceptionClasses

\* variant: only a missing address is rejected
EmptyAddressMissingOnly(address) == isna(address)

\* pd.isna(address) or address == ""
EmptyAddress(address) == isna(address) \/ address = EmptyStr

\* variant: only a missing longitude is rejected
EmptyCoordsLongitudeOnly(longitude, latitude) == isna(longitude)

\* pd.isna(longitude) or pd.isna(latitude)
EmptyCoords(longitude, latitude) == isna(longitude) \/ isna(latitude)

\* the early "return None" taken before any request is built
Skipped == Outcome(ResultNone, "no", FALSE, {})

\* the end of an adapter method: the value of the try block, None when one
\* of its handlers caught the exception, the exception when none did
Finish(t, diag) ==
    IF t.exc = "none" THEN Outcome(t.value, "no", TRUE, diag)
    ELSE IF Caught(t.exc) THEN Outcome(ResultNone, "no", TRUE, diag)
    ELSE Outcome(ResultNone, t.exc, TRUE, diag)

\* the try block of the forward methods, up to the first candidate:
\* the exception raised, or the candidate list
Candidates(http) ==
    LET e == StatusAndParse(http) IN
    IF e # "none" THEN [exc |-> e, list |-> <<>>] ELSE ArrayOf(http.body)

\* the mapping KakaoGeocodingAPI.geocode_address builds from documents[0]
KakaoForwardResult(doc, lon, lat) ==
    ResultDict([longitude    |-> lon,
                latitude     |-> lat,
                address_name |-> Get(doc.f, "address_name", EmptyStr),
                address_type |-> Get(doc.f, "address_type", EmptyStr)])

\* try block of KakaoGeocodingAPI.geocode_address (geocoding.py)
KakaoGeocodeTry(http) ==
    LET c == Candidates(http) IN
    IF c.exc # "none" THEN Throws(c.exc)
    ELSE IF c.list = <<>> THEN Returns(ResultNone)
    ELSE LET doc == c.list[1] IN
         IF doc.shape # "dict" THEN Throws("AttributeError")
         ELSE LET lon == FloatOrZero(doc.f["x"])
                  lat == FloatOrZero(doc.f["y"]) IN
              IF lon.exc # "none" THEN Throws(lon.exc)
              ELSE IF lat.exc # "none" THEN Throws(lat.exc)
              ELSE Returns(KakaoForwardResult(doc, lon.value, lat.value))

\* variant: no guidance is printed on 403
KakaoDiagNoGuidance(http, t) ==
    (IF t.exc = "HTTPError" /\ http.status # 403 THEN {"http"} ELSE {}) \cup
    (IF t.exc \notin {"none", "HTTPError"} THEN {"error"} ELSE {})

\* what the Kakao methods print: the 403 guidance before raise_for_status,
\* one line for any other HTTP error, one line for any other exception
KakaoDiag(http, t) ==
    (IF http.kind = "response" /\ http.status = 403 THEN {"auth"} ELSE {}) \cup
    (IF t.exc = "HTTPError" /\ http.status # 403 THEN {"http"} ELSE {}) \cup
    (IF t.exc \notin {"none", "HTTPError"} THEN {"error"} ELSE {})

\* KakaoGeocodingAPI.geocode_address (geocoding.py)
KakaoGeocodeAddress(address, http) ==
    IF EmptyAddress(address) THEN Skipped
    ELSE LET t == KakaoGeocodeTry(http) IN Finish(t, KakaoDiag(http, t))

\* try block of KakaoGeocodingAPI._geocode_address (kakao_geocoding.py):
\* float() is applied to the raw value, defaulting only an absent key
LegacyGeocodeTry(http) ==
    LET c == Candidates(http) IN
    IF c.exc # "none" THEN Throws(c.exc)
    ELSE IF c.list = <<>> THEN Returns(ResultNone)
    ELSE LET doc == c.list[1] IN
         IF doc.shape # "dict" THEN Throws("AttributeError")
         ELSE LET lon == FloatDefaultZero(doc.f["x"])
                  lat == FloatDefaultZero(doc.f["y"]) IN
              IF lon.exc # "none" THEN Throws(lon.exc)
              ELSE IF lat.exc # "none" THEN Throws(lat.exc)
              ELSE Returns(KakaoForwardResult(doc, lon.value, lat.value))

\* KakaoGeocodingAPI._geocode_address (kakao_geocoding.py)
LegacyGeocodeAddress(address, http) ==
    IF EmptyAddress(address) THEN Skipped
    ELSE LET t == LegacyGeocodeTry(http) IN Finish(t, KakaoDiag(http, t))

\* try block of NaverGeocodingAPI.geocode_address
NaverGeocodeTry(http) ==
    LET c == Candidates(http) IN
    IF c.exc # "none" THEN Throws(c.exc)
    ELSE IF c.list = <<>> THEN Returns(ResultNone)
    ELSE LET first == c.list[1] IN
         IF first.shape # "dict" THEN Throws("AttributeError")
         ELSE LET lon == FloatOrZero(first.f["x"])
                  lat == FloatOrZero(first.f["y"]) IN
              IF lon.exc # "none" THEN Throws(lon.exc)
              ELSE IF lat.exc # "none" THEN Throws(lat.exc)
              ELSE Returns(ResultDict(
                     [longitude    |-> lon.value,
                      latitude     |-> lat.value,
                      road_address |-> PyOr(Get(first.f, "roadAddress", EmptyStr), EmptyStr),
                      address      |-> PyOr(Get(first.f, "jibunAddress", EmptyStr), EmptyStr)]))

\* what the Naver methods print: the authentication checklist on 401 / 403
\* (before raise_for_status and again in the handler) and one line for any
\* exception
NaverDiag(http, t) ==
    (IF http.kind = "response" /\ http.status \in {401, 403} THEN {"auth"} ELSE {}) \cup
    (IF t.exc = "HTTPError" THEN {"http"} ELSE {}) \cup
    (IF t.exc \notin {"none", "HTTPError"} THEN {"error"} ELSE {})

\* NaverGeocodingAPI.geocode_address
NaverGeocodeAddress(address, http) ==
    IF EmptyAddress(address) THEN Skipped
    ELSE LET t == NaverGeocodeTry(http) IN Finish(t, NaverDiag(http, t))

\* the forward method of an adapter class
GeocodeAddress(adapter, address, http) ==
    CASE adapter = "kakao"  -> KakaoGeocodeAddress(address, http)
      [] adapter = "naver"  -> NaverGeocodeAddress(address, http)
      [] adapter = "legacy" -> LegacyGeocodeAddress(address, http)

(* vendor responses tried for the forward methods *)

XVals == {Missing, None, EmptyStr, <<"1", "2">>, <<" ", "0", "7", ".", "5", "0">>, <<"x">>}
YVals == {EmptyStr, <<"3", "7">>, <<"y">>}
NameVals == {Missing, None, <<"A">>}
KindVals == {Missing, <<"B">>}

ForwardDoc(x, y, n1, n2, k1, k2) ==
    [shape |-> "dict",
     f |-> [k \in {"x", "y", k1, k2} |->
              IF k = "x" THEN x ELSE IF k = "y" THEN y
              ELSE IF k = k1 THEN n1 ELSE n2]]

\* an array element that is not a JSON object
JunkDoc(keys) == [shape |-> "junk", f |-> [k \in keys |-> Missing]]

ForwardDocs(k1, k2) ==
    {JunkDoc({"x", "y", k1, k2})} \cup
    {ForwardDoc(x, y, n1, n2, k1, k2) :
        x \in XVals, y \in YVals, n1 \in NameVals, n2 \in KindVals}

\* the candidate that follows the first one, when the vendor sends several
OtherForwardDoc(k1, k2) == ForwardDoc(<<"9">>, <<"8">>, <<"Z">>, <<"Z">>, k1, k2)

\* lists of 1..MaxDocs entries: any first entry, then copies of `other`
ListsOf(firsts, other) ==
    {<<d>> \o [i \in 1..n |-> other] : d \in firsts, n \in 0..(MaxDocs - 1)}

\* bodies of a 200 response: not JSON, not an object, no array, null array,
\* empty array, or an array of entries
OkBodies(firsts, other) ==
    {NoBody, Body("nondict", <<>>), Body("nokey", <<>>), Body("null", <<>>),
     Body("list", <<>>)} \cup
    {Body("list", l) : l \in ListsOf(firsts, other)}

ForwardKeys(adapter) ==
    IF adapter = "naver" THEN <<"roadAddress", "jibunAddress">>
    ELSE <<"address_name", "address_type">>

ForwardHttp(adapter) ==
    LET k == ForwardKeys(adapter) IN
    HttpOutcomes(OkBodies(ForwardDocs(k[1], k[2]), OtherForwardDoc(k[1], k[2])))

Addresses == {None, NaN, EmptyStr, <<" ">>, <<"S", "e", "o", "u", "l">>}
Adapters == {"kakao", "naver", "legacy"}

----------------------------------------------------------------------------
(* Reverse geocoding, Kakao: coordinates -> road / lot-number address *)

\* result key -> key of the vendor's road_address object
RoadSource ==
    [road_address          |-> "address_name",
     road_zone_no          |-> "zone_no",
     road_region_1depth    |-> "region_1depth_name",
     road_region_2depth    |-> "region_2depth_name",
     road_region_3depth    |-> "region_3depth_name",
     road_name             |-> "road_name",
     road_main_building_no |-> "main_building_no",
     road_sub_building_no  |-> "sub_building_no",
     road_building_name    |-> "building_name",
     road_underground_yn   |-> "underground_yn"]

\* result key -> key of the vendor's address object
AddressSource ==
    [address                 |-> "address_name",
     address_region_1depth   |-> "region_1depth_name",
     address_region_2depth   |-> "region_2depth_name",
     address_region_3depth   |-> "region_3depth_name",
     address_region_3depth_h |-> "region_3depth_h_name",
     address_h_code          |-> "h_code",
     address_b_code          |-> "b_code",
     address_main_no         |-> "main_address_no",
     address_sub_no          |-> "sub_address_no",
     address_mountain_yn     |-> "mountain_yn"]

\* the keys the "road_address present" branch writes
KakaoRoadKeys(include_details) ==
    IF include_details THEN DOMAIN RoadSource ELSE {"road_address", "road_zone_no"}

\* variant: the else branch forgets the postal code
KakaoRoadBlankKeysNoZone(include_details) ==
    IF include_details
    THEN {"road_address", "road_region_1depth",
          "road_region_2depth", "road_region_3depth", "road_name",
          "road_main_building_no", "road_sub_building_no",
          "road_building_name", "road_underground_yn"}
    ELSE {"road_address"}

\* the keys the "road_address absent" branch sets to ""
KakaoRoadBlankKeys(include_details) ==
    IF include_details
    THEN {"road_address", "road_zone_no", "road_region_1depth",
          "road_region_2depth", "road_region_3depth", "road_name",
          "road_main_building_no", "road_sub_building_no",
          "road_building_name", "road_underground_yn"}
    ELSE {"road_address", "road_zone_no"}

\* the keys the "address present" branch writes
KakaoAddressKeys(include_details) ==
    IF include_details THEN DOMAIN AddressSource ELSE {"address"}

\* the keys the "address absent" branch sets to ""
KakaoAddressBlankKeys(include_details) ==
    IF include_details
    THEN {"address", "address_region_1depth", "address_region_2depth",
          "address_region_3depth", "address_region_3depth_h",
          "address_h_code", "address_b_code", "address_main_no",
          "address_sub_no", "address_mountain_yn"}
    ELSE {"address"}

\* a nested vendor object: the key is absent, null, or an object
Absent(keys) == [st |-> "missing", f |-> [k \in keys |-> Missing]]
Null(keys) == [st |-> "null", f |-> [k \in keys |-> Missing]]
Object(f) == [st |-> "obj", f |-> f]

\* bool(o) for a nested object: false when absent, null or {}
Truthy(o) == o.st = "obj" /\ \E k \in DOMAIN o.f : o.f[k] # Missing

\* geocoding.py: "road_address" in doc and doc["road_address"]
UsesObject(o) == Truthy(o)

\* kakao_geocoding.py: "road_address" in doc
LegacyUsesObject(o) == o.st # "missing"

\* the if branch of a namespace: result[k] = o.get(source[k], "")
Flatten(o, source, keys) == [k \in keys |-> Get(o.f, source[k], EmptyStr)]

\* the else branch of a namespace: result[k] = ""
Blank(keys) == [k \in keys |-> EmptyStr]

\* the two namespaces written into one result mapping
Merge(r, a) ==
    [k \in DOMAIN r \cup DOMAIN a |-> IF k \in DOMAIN a THEN a[k] ELSE r[k]]

\* the road_* / address_* entries written from documents[0]
KakaoNamespaces(doc, include_details, useRoad, useAddress) ==
    Merge(IF useRoad
          THEN Flatten(doc.road_address, RoadSource, KakaoRoadKeys(include_details))
          ELSE Blank(KakaoRoadBlankKeys(include_details)),
          IF useAddress
          THEN Flatten(doc.address, AddressSource, KakaoAddressKeys(include_details))
          ELSE Blank(KakaoAddressBlankKeys(include_details)))

\* the mapping built from documents[0] by geocoding.py
KakaoReverseResult(doc, include_details) ==
    KakaoNamespaces(doc, include_details,
                    UsesObject(doc.road_address), UsesObject(doc.address))

\* the mapping built from documents[0] by kakao_geocoding.py
LegacyReverseResult(doc, include_details) ==
    KakaoNamespaces(doc, include_details,
                    LegacyUsesObject(doc.road_address), LegacyUsesObject(doc.address))

\* the part of the reverse try blocks before the result array is read:
\* request, raise_for_status, json(), then the optional dump of the raw
\* response, whose write can fail with OSError
FetchAndDump(http, save_json, dumpOk) ==
    LET e == StatusAndParse(http) IN
    IF e # "none" THEN [exc |-> e, list |-> <<>>]
    ELSE IF save_json # None /\ ~dumpOk THEN [exc |-> "OSError", list |-> <<>>]
    ELSE ArrayOf(http.body)

\* try block of KakaoGeocodingAPI.reverse_geocode_coords (geocoding.py)
KakaoReverseTry(http, include_details, save_json, dumpOk) ==
    LET c == FetchAndDump(http, save_json, dumpOk) IN
    IF c.exc # "none" THEN Throws(c.exc)
    ELSE IF c.list = <<>> THEN Returns(ResultNone)
    ELSE LET doc == c.list[1] IN
         IF doc.shape # "dict" THEN Throws("TypeError")
         ELSE Returns(ResultDict(KakaoReverseResult(doc, include_details)))

\* KakaoGeocodingAPI.reverse_geocode_coords (geocoding.py)
KakaoReverseGeocodeCoords(longitude, latitude, include_details, save_json, dumpOk, http) ==
    IF EmptyCoords(longitude, latitude) THEN Skipped
    ELSE LET t == KakaoReverseTry(http, include_details, save_json, dumpOk)
         IN  Finish(t, KakaoDiag(http, t))

\* try block of KakaoGeocodingAPI._reverse_geocode_coords (kakao_geocoding.py):
\* a null road_address / address value is dereferenced
LegacyReverseTry(http, include_details, save_json, dumpOk) ==
    LET c == FetchAndDump(http, save_json, dumpOk) IN
    IF c.exc # "none" THEN Throws(c.exc)
    ELSE IF c.list = <<>> THEN Returns(ResultNone)
    ELSE LET doc == c.list[1] IN
         IF doc.shape # "dict" THEN Throws("TypeError")
         ELSE IF doc.road_address.st = "null" \/ doc.address.st = "null"
         THEN Throws("AttributeError")
         ELSE Returns(ResultDict(LegacyReverseResult(doc, include_details)))

\* KakaoGeocodingAPI._reverse_geocode_coords (kakao_geocoding.py)
LegacyReverseGeocodeCoords(longitude, latitude, include_details, save_json, dumpOk, http) ==
    IF EmptyCoords(longitude, latitude) THEN Skipped
    ELSE LET t == LegacyReverseTry(http, include_details, save_json, dumpOk)
         IN  Finish(t, KakaoDiag(http, t))

(* vendor responses tried for the Kakao reverse methods *)

RoadFull ==
    [address_name       |-> <<"r", "0">>, zone_no            |-> <<"r", "1">>,
     region_1depth_name |-> <<"r", "2">>, region_2depth_name |-> <<"r", "3">>,
     region_3depth_name |-> <<"r", "4">>, road_name          |-> <<"r", "5">>,
     main_building_no   |-> <<"r", "6">>, sub_building_no    |-> <<"r", "7">>,
     building_name      |-> <<"r", "8">>, underground_yn     |-> <<"r", "9">>]

AddressFull ==
    [address_name         |-> <<"a", "0">>, region_1depth_name |-> <<"a", "1">>,
     region_2depth_name   |-> <<"a", "2">>, region_3depth_name |-> <<"a", "3">>,
     region_3depth_h_name |-> <<"a", "4">>, h_code             |-> <<"a", "5">>,
     b_code               |-> <<"a", "6">>, main_address_no    |-> <<"a", "7">>,
     sub_address_no       |-> <<"a", "8">>, mountain_yn        |-> <<"a", "9">>]

\* the object restricted to the keys the vendor supplied
Supplied(full, keys) == [k \in DOMAIN full |-> IF k \in keys THEN full[k] ELSE Missing]

\* a nested object as the vendor may send it: absent, null, empty, complete,
\* complete but for one key, or complete with a null address_name
VendorObjects(full) ==
    {Absent(DOMAIN full), Null(DOMAIN full)} \cup
    {Object(Supplied(full, DOMAIN full \ drop)) :
        drop \in {{}, DOMAIN full} \cup {{k} : k \in DOMAIN full}} \cup
    {Object([full EXCEPT !["address_name"] = None])}

KakaoReverseDoc(road, addr) == [shape |-> "dict", road_address |-> road, address |-> addr]

JunkReverseDoc ==
    [shape |-> "junk", road_address |-> Absent(DOMAIN RoadFull),
     address |-> Absent(DOMAIN AddressFull)]

KakaoReverseDocs ==
    {JunkReverseDoc} \cup
    {KakaoReverseDoc(r, a) : r \in VendorObjects(RoadFull), a \in VendorObjects(AddressFull)}

OtherReverseDoc ==
    KakaoReverseDoc(Object([k \in DOMAIN RoadFull |-> <<"Z">>]),
                    Object([k \in DOMAIN AddressFull |-> <<"Z">>]))

KakaoReverseHttp == HttpOutcomes(OkBodies(KakaoReverseDocs, OtherReverseDoc))

----------------------------------------------------------------------------
(* Reverse geocoding, Naver *)

\* " ".join(parts)
RECURSIVE Join(_)
Join(parts) ==
    IF parts = <<>> THEN <<>>
    ELSE IF Len(parts) = 1 THEN parts[1]
    ELSE parts[1] \o <<" ">> \o Join(Tail(parts))

\* [p for p in parts if keep(p)] for the two filters of _naver_result_text
RECURSIVE Truthies(_)
Truthies(parts) ==
    IF parts = <<>> THEN <<>>
    ELSE IF Falsy(Head(parts)) THEN Truthies(Tail(parts))
    ELSE <<Head(parts)>> \o Truthies(Tail(parts))

RECURSIVE StrippedNonBlank(_)
StrippedNonBlank(parts) ==
    IF parts = <<>> THEN <<>>
    ELSE IF strip(Head(parts)) = <<>> THEN StrippedNonBlank(Tail(parts))
    ELSE <<strip(Head(parts))>> \o StrippedNonBlank(Tail(parts))

\* variant: the last object entry with that name
_pick_naver_result_last(results, name) ==
    LET hits == {i \in 1..Len(results) :
                    results[i].shape = "dict" /\ results[i].name = name}
    IN  IF hits = {} THEN 0 ELSE CHOOSE i \in hits : \A j \in hits : i >= j

\* _pick_naver_result(results, name): the first object entry with that name
\* (0 when there is none)
_pick_naver_result(results, name) ==
    LET hits == {i \in 1..Len(results) :
                    results[i].shape = "dict" /\ results[i].name = name}
    IN  IF hits = {} THEN 0 ELSE CHOOSE i \in hits : \A j \in hits : i <= j

roadaddr == <<"r", "o", "a", "d", "a", "d", "d", "r">>
addr == <<"a", "d", "d", "r">>

\* the text synthesised from region and land when "text" is unusable
NaverSynthesised(result) ==
    LET names == Truthies(<<Get(result.region, "area1", EmptyStr),
                            Get(result.region, "area2", EmptyStr),
                            Get(result.region, "area3", EmptyStr),
                            Get(result.region, "area4", EmptyStr)>>)
        land_name == PyOr(result.land["name"], EmptyStr)
        number1 == PyOr(result.land["number1"], EmptyStr)
        number2 == PyOr(result.land["number2"], EmptyStr)
        withLand == IF Falsy(land_name) THEN names ELSE Append(names, land_name)
        num == IF Falsy(number2) THEN number1 ELSE number1 \o <<"-">> \o number2
        parts == IF Falsy(number1) THEN withLand ELSE Append(withLand, num)
    IN  Join(StrippedNonBlank(parts))

\* _naver_result_text(result) for an object entry
_naver_result_text(result) ==
    IF ~Falsy(result.text) /\ strip(result.text) # <<>>
    THEN strip(result.text)
    ELSE NaverSynthesised(result)

\* _naver_road_name(result): land.name, stripped
_naver_road_name(result) ==
    IF Falsy(result.land["name"]) THEN EmptyStr ELSE strip(result.land["name"])

\* _naver_building_name(result): land.addition0.value, stripped
_naver_building_name(result) ==
    IF Falsy(result.land["addition0"]) THEN EmptyStr
    ELSE strip(result.land["addition0"])

\* variant: the postal code is not among the fixed blanks
NaverBlankKeysWithoutZone ==
    {"road_main_building_no", "road_sub_building_no",
     "road_underground_yn", "address_region_3depth_h", "address_h_code",
     "address_b_code", "address_main_no", "address_sub_no",
     "address_mountain_yn"}

\* the keys NaverGeocodingAPI.reverse_geocode_coords always writes as ""
NaverBlankKeys ==
    {"road_zone_no", "road_main_building_no", "road_sub_building_no",
     "road_underground_yn", "address_region_3depth_h", "address_h_code",
     "address_b_code", "address_main_no", "address_sub_no",
     "address_mountain_yn"}

\* the two keys of the mapping literal "out"
NaverBase(results, road, addr_) ==
    [road_address |-> IF road # 0 THEN _naver_result_text(results[road]) ELSE EmptyStr,
     address      |-> IF addr_ # 0 THEN _naver_result_text(results[addr_]) ELSE EmptyStr]

\* the keys added under "if include_details"
NaverDetails(results, road, addr_) ==
    LET base == IF road # 0 THEN results[road]
                ELSE IF addr_ # 0 THEN results[addr_] ELSE results[1]
        area(k) == IF base.shape = "dict" THEN Get(base.region, k, EmptyStr)
                   ELSE EmptyStr
        road_name == IF road # 0 THEN _naver_road_name(results[road]) ELSE EmptyStr
        building  == IF road # 0 THEN _naver_building_name(results[road]) ELSE EmptyStr
    IN  [k \in NaverBlankKeys \cup
               {"road_region_1depth", "road_region_2depth", "road_region_3depth",
                "road_name", "road_building_name", "address_region_1depth",
                "address_region_2depth", "address_region_3depth"} |->
            CASE k \in NaverBlankKeys -> EmptyStr
              [] k \in {"road_region_1depth", "address_region_1depth"} -> area("area1")
              [] k \in {"road_region_2depth", "address_region_2depth"} -> area("area2")
              [] k \in {"road_region_3depth", "address_region_3depth"} -> area("area3")
              [] k = "road_name" -> road_name
              [] k = "road_building_name" -> building]

\* the mapping built by NaverGeocodingAPI.reverse_geocode_coords
NaverReverseResult(results, include_details) ==
    LET road  == _pick_naver_result(results, roadaddr)
        addr_ == _pick_naver_result(results, addr)
    IN  IF include_details
        THEN Merge(NaverBase(results, road, addr_), NaverDetails(results, road, addr_))
        ELSE NaverBase(results, road, addr_)

\* try block of NaverGeocodingAPI.reverse_geocode_coords; a body that is
\* not an object counts as an empty result list
NaverReverseTry(http, include_details, save_json, dumpOk) ==
    LET e == StatusAndParse(http) IN
    IF e # "none" THEN Throws(e)
    ELSE IF save_json # None /\ ~dumpOk THEN Throws("OSError")
    ELSE IF http.body.shape # "list" \/ http.body.docs = <<>> THEN Returns(ResultNone)
    ELSE Returns(ResultDict(NaverReverseResult(http.body.docs, include_details)))

\* NaverGeocodingAPI.reverse_geocode_coords
NaverReverseGeocodeCoords(longitude, latitude, include_details, save_json, dumpOk, http) ==
    IF EmptyCoords(longitude, latitude) THEN Skipped
    ELSE LET t == NaverReverseTry(http, include_details, save_json, dumpOk)
         IN  Finish(t, NaverDiag(http, t))

\* the reverse method of an adapter class
ReverseGeocodeCoords(adapter, longitude, latitude, include_details, save_json, dumpOk, http) ==
    CASE adapter = "kakao" ->
           KakaoReverseGeocodeCoords(longitude, latitude, include_details, save_json, dumpOk, http)
      [] adapter = "naver" ->
           NaverReverseGeocodeCoords(longitude, latitude, include_details, save_json, dumpOk, http)
      [] adapter = "legacy" ->
           LegacyReverseGeocodeCoords(longitude, latitude, include_details, save_json, dumpOk, http)

(* vendor responses tried for the Naver reverse method *)

RegionKeys == {"area1", "area2", "area3", "area4"}
LandKeys == {"name", "number1", "number2", "addition0"}

NoRegion == [k \in RegionKeys |-> Missing]
NoLand == [k \in LandKeys |-> Missing]

\* region.areaN.name and land.* of an entry; land.addition0 stands for
\* land.addition0.value
FullRegion ==
    [area1 |-> <<"S">>, area2 |-> <<"G">>, area3 |-> <<"Y">>, area4 |-> EmptyStr]
PartRegion ==
    [area1 |-> <<"s">>, area2 |-> Missing, area3 |-> None, area4 |-> <<" ">>]
FullLand ==
    [name |-> <<"T", " ">>, number1 |-> <<"1">>, number2 |-> <<"2">>,
     addition0 |-> <<" ", "B">>]
PartLand ==
    [name |-> Missing, number1 |-> <<"7">>, number2 |-> EmptyStr, addition0 |-> None]

\* text / region / land combinations an entry may carry
NaverContents ==
    {[text |-> <<" ", "t", " ">>, region |-> FullRegion, land |-> FullLand],
     [text |-> <<" ">>,           region |-> FullRegion, land |-> FullLand],
     [text |-> Missing,           region |-> PartRegion, land |-> PartLand],
     [text |-> None,              region |-> NoRegion,   land |-> NoLand]}

NaverEntry(name, c) ==
    [shape |-> "dict", name |-> name, text |-> c.text, region |-> c.region,
     land |-> c.land]

JunkEntry ==
    [shape |-> "junk", name |-> Missing, text |-> Missing, region |-> NoRegion,
     land |-> NoLand]

NaverEntryNames == {roadaddr, addr, <<"x">>}

\* entries tried: any content under the name "addr", any content but the
\* bare one under "roadaddr", the partial content under another name
NaverEntries ==
    {JunkEntry} \cup
    {e \in {NaverEntry(n, c) : n \in NaverEntryNames, c \in NaverContents} :
        \/ e.name = addr
        \/ e.name = roadaddr /\ e.land # NoLand
        \/ e.land = PartLand}

\* every list of 1..MaxDocs entries
NaverLists == UNION {[1..n -> NaverEntries] : n \in 1..MaxDocs}

NaverReverseHttp ==
    HttpOutcomes({NoBody, Body("nondict", <<>>), Body("nokey", <<>>),
                  Body("null", <<>>), Body("list", <<>>)} \cup
                 {Body("list", l) : l \in NaverLists})

ReverseHttp(adapter) == IF adapter = "naver" THEN NaverReverseHttp ELSE KakaoReverseHttp

----------------------------------------------------------------------------
(* Batch runner: columns *)

\* detail_columns of reverse_geocode
detail_columns ==
    <<"road_zone_no", "road_region_1depth", "road_region_2depth",
      "road_region_3depth", "road_name", "road_main_building_no",
      "road_sub_building_no", "road_building_name", "road_underground_yn",
      "address_region_1depth", "address_region_2depth",
      "address_region_3depth", "address_region_3depth_h", "address_h_code",
      "address_b_code", "address_main_no", "address_sub_no",
      "address_mountain_yn">>

Range(seq) == {seq[i] : i \in 1..Len(seq)}

----------------------------------------------------------------------------
(* Single-record calls on an adapter *)

Path == <<"o", "u", "t">>

\* the raw-response dump: disabled, written, or failing to write
DumpModes ==
    {[save_json |-> None, dumpOk |-> TRUE],
     [save_json |-> Path, dumpOk |-> TRUE],
     [save_json |-> Path, dumpOk |-> FALSE]}

Lon == <<"float", "1", "2", "7">>
Lat == <<"float", "3", "7">>

\* coordinate pairs with one or both values missing
MissingCoords == {<<None, Lat>>, <<Lon, NaN>>, <<NaN, None>>}

PendingForward(adapter, address, http) ==
    [stage |-> "pending", adapter |-> adapter, op |-> "geocode",
     address |-> address, longitude |-> None, latitude |-> None,
     include_details |-> FALSE, save_json |-> None, dumpOk |-> TRUE,
     http |-> http, out |-> Skipped]

PendingReverse(adapter, xy, details, dump, http) ==
    [stage |-> "pending", adapter |-> adapter, op |-> "reverse",
     address |-> None, longitude |-> xy[1], latitude |-> xy[2],
     include_details |-> details, save_json |-> dump.save_json,
     dumpOk |-> dump.dumpOk, http |-> http, out |-> Skipped]

\* a successful response used where the input never reaches the network
ProbeHttp(adapter) ==
    IF adapter = "naver"
    THEN {Response(200, Body("list", <<NaverEntry(roadaddr, c)>>)) :
            c \in {x \in NaverContents : x.land = FullLand /\ strip(x.text) # <<>>}}
    ELSE {Response(200, Body("list", <<OtherReverseDoc>>))}

\* the calls tried: every address against every forward outcome, valid
\* coordinates against every reverse outcome, missing coordinates against
\* successful responses
PendingCalls ==
    {PendingForward(a, ad, h) : a \in {"kakao", "legacy"}, ad \in Addresses,
                                h \in ForwardHttp("kakao")} \cup
    {PendingForward("naver", ad, h) : ad \in Addresses, h \in ForwardHttp("naver")} \cup
    {PendingReverse(a, <<Lon, Lat>>, d, m, h) :
        a \in {"kakao", "legacy"}, d \in BOOLEAN, m \in DumpModes,
        h \in KakaoReverseHttp} \cup
    {c \in {PendingReverse("naver", <<Lon, Lat>>, d, m, h) :
              d \in BOOLEAN, m \in DumpModes, h \in NaverReverseHttp} :
        c.save_json = None \/ Len(c.http.body.docs) <= 1} \cup
    {PendingReverse(a, xy, d, m, h) :
        a \in {"kakao", "legacy"}, xy \in MissingCoords, d \in BOOLEAN,
        m \in DumpModes, h \in ProbeHttp("kakao")} \cup
    {PendingReverse("naver", xy, d, m, h) :
        xy \in MissingCoords, d \in BOOLEAN, m \in DumpModes,
        h \in ProbeHttp("naver")}

\* the call returns (or raises) and the request it made, if any, is counted
Complete(out) ==
    /\ call' = [call EXCEPT !.stage = "done", !.out = out]
    /\ requests' = requests + (IF out.requested THEN 1 ELSE 0)
    /\ UNCHANGED <<dispatchVars, pass>>

\* api.geocode_address(address) on a KakaoGeocodingAPI of geocoding.py
CallKakaoGeocode ==
    /\ call.stage = "pending" /\ call.adapter = "kakao" /\ call.op = "geocode"
    /\ Complete(KakaoGeocodeAddress(call.address, call.http))

CallNaverGeocode ==
    /\ call.stage = "pending" /\ call.adapter = "naver" /\ call.op = "geocode"
    /\ Complete(NaverGeocodeAddress(call.address, call.http))

CallLegacyGeocode ==
    /\ call.stage = "pending" /\ call.adapter = "legacy" /\ call.op = "geocode"
    /\ Complete(LegacyGeocodeAddress(call.address, call.http))

CallKakaoReverse ==
    /\ call.stage = "pending" /\ call.adapter = "kakao" /\ call.op = "reverse"
    /\ Complete(KakaoReverseGeocodeCoords(call.longitude, call.latitude,
            call.include_details, call.save_json, call.dumpOk, call.http))

CallNaverReverse ==
    /\ call.stage = "pending" /\ call.adapter = "naver" /\ call.op = "reverse"
    /\ Complete(NaverReverseGeocodeCoords(call.longitude, call.latitude,
            call.include_details, call.save_json, call.dumpOk, call.http))

CallLegacyReverse ==
    /\ call.stage = "pending" /\ call.adapter = "legacy" /\ call.op = "reverse"
    /\ Complete(LegacyReverseGeocodeCoords(call.longitude, call.latitude,
            call.include_details, call.save_json, call.dumpOk, call.http))

\* an adapter exists and one call on it is about to be made
InitCall ==
    /\ env = [n \in EnvNames |-> Key1]
    /\ config = [present |-> FALSE, attrs |-> [n \in EnvNames |-> Missing]]
    /\ InitModule
    /\ call \in PendingCalls
    /\ pass = NoPass

NextCall ==
    \/ CallKakaoGeocode
    \/ CallNaverGeocode
    \/ CallLegacyGeocode
    \/ CallKakaoReverse
    \/ CallNaverReverse
    \/ CallLegacyReverse

SpecCall == InitCall /\ [][NextCall]_vars

----------------------------------------------------------------------------
(* Batch runner of geocoding.py: geocode(df, ...) and reverse_geocode(df, ...) *)

\* index labels of a table: the default 0, 1, ... or labels the caller chose
Labels == {<<"0">>, <<"a">>}

\* the value of the input column(s) in one row
RowInputs(kind) ==
    IF kind = "geocode" THEN {None, <<"S", "e", "o", "u", "l">>}
    ELSE {<<Lon, NaN>>, <<Lon, Lat>>}

InputRows(kind) == {[label |-> l, in |-> v] : l \in Labels, v \in RowInputs(kind)}

\* every table of 0..MaxRows rows; labels may repeat, as after pd.concat,
\* and are named in the order they first appear
Tables(kind) ==
    {t \in UNION {[1..n -> InputRows(kind)] : n \in 0..MaxRows} :
        Len(t) = 0 \/ t[1].label = <<"0">>}

\* variant: no input column is required
InputColumnsUnchecked(kind) == {}

\* the input columns the operation requires
InputColumns(kind) ==
    IF kind = "geocode" THEN {"address_column"}
    ELSE {"longitude_column", "latitude_column"}

\* the output columns the operation adds
OutputColumns(kind, include_details) ==
    IF kind = "geocode" THEN {"longitude", "latitude"}
    ELSE {"address", "road_address"} \cup
         (IF include_details THEN Range(detail_columns) ELSE {})

\* the table object the caller passes in: its rows, with none of the
\* output columns
CallerTable(rows) ==
    [r \in 1..Len(rows) |-> [label |-> rows[r].label, in |-> rows[r].in, out |-> <<>>]]

\* variant: no copy is taken; the name df stays bound to the caller's object
copy_shared(t) == [own |-> FALSE, df |-> t]

\* df = df.copy(): the name df is bound to a new table object holding the
\* same labels and values
copy(t) == [own |-> TRUE, df |-> t]

\* df = df.copy(); df[col] = None for every output column
InitColumns(rows, kind, include_details) ==
    [r \in 1..Len(rows) |->
        [label |-> rows[r].label, in |-> rows[r].in,
         out |-> [c \in OutputColumns(kind, include_details) |-> None]]]

\* result.get(k, default) on a result mapping
DictGet(d, k, default) == IF k \in DOMAIN d THEN d[k] ELSE default

\* the cells written for a truthy result: result.get("longitude") /
\* result.get("latitude"), or result.get(col, "") for the reverse columns
Cells(kind, include_details, d) ==
    IF kind = "geocode"
    THEN [c \in {"longitude", "latitude"} |-> DictGet(d, c, None)]
    ELSE [c \in OutputColumns(kind, include_details) |-> DictGet(d, c, EmptyStr)]

\* df.at[idx, col] = value for each written column: a label-based write,
\* which reaches every row carrying the label idx
AtSet(df, idx, cells) ==
    [r \in 1..Len(df) |-> IF df[r].label = idx THEN [df[r] EXCEPT !.out = cells] ELSE df[r]]

\* variant: the result is written without the "if result:" test
ResultTruthyUnchecked(r) == TRUE

\* "if result:" is false for None and for an empty mapping
ResultTruthy(r) == ~r.none /\ DOMAIN r.d # {}

\* the adapter class behind a provider instance
ClassOf(inst) == IF heap'[inst].cls = kakao THEN "kakao" ELSE "naver"

BatchDoc(adapter, x, y) ==
    ForwardDoc(x, y, <<"A">>, <<"B">>, ForwardKeys(adapter)[1], ForwardKeys(adapter)[2])

\* the vendor answers a batch row may meet: transport failure, rejected
\* authentication, server error, unusable bodies, no match, matches
BatchForwardHttp(adapter) ==
    {Transport, Response(401, NoBody), Response(403, Body("error", <<>>)),
     Response(500, NoBody),
     Response(200, NoBody), Response(200, Body("nondict", <<>>)),
     Response(200, Body("list", <<>>)),
     Response(200, Body("list", <<JunkDoc({"x", "y", ForwardKeys(adapter)[1],
                                           ForwardKeys(adapter)[2]})>>)),
     Response(200, Body("list", <<BatchDoc(adapter, <<"x">>, <<"3", "7">>)>>)),
     Response(200, Body("list", <<BatchDoc(adapter, <<"1", "2">>, <<"3", "7">>)>>)),
     Response(200, Body("list", <<BatchDoc(adapter, <<"9">>, <<"8">>),
                                  BatchDoc(adapter, <<"1", "2">>, <<"3", "7">>)>>))}

BatchReverseHttp(adapter) ==
    {Transport, Response(401, NoBody), Response(403, Body("error", <<>>)),
     Response(500, NoBody),
     Response(200, NoBody), Response(200, Body("nondict", <<>>)),
     Response(200, Body("list", <<>>))} \cup
    (IF adapter = "naver"
     THEN {Response(200, Body("list", <<JunkEntry>>))} \cup
          {Response(200, Body("list", <<NaverEntry(roadaddr, c), NaverEntry(addr, c)>>)) :
              c \in {x \in NaverContents : x.land = FullLand /\ strip(x.text) # <<>>}} \cup
          {Response(200, Body("list", <<NaverEntry(addr, c)>>)) :
              c \in {x \in NaverContents : x.land = PartLand}}
     ELSE {Response(200, Body("list", <<JunkReverseDoc>>)),
           Response(200, Body("list", <<KakaoReverseDoc(Object(RoadFull), Object(AddressFull))>>)),
           Response(200, Body("list", <<KakaoReverseDoc(Null(DOMAIN RoadFull), Object(AddressFull))>>))})

BatchHttp(kind, adapter) ==
    IF kind = "geocode" THEN BatchForwardHttp(adapter) ELSE BatchReverseHttp(adapter)

Bing == <<"B", "i", "n", "g">>

\* the arguments of one call of geocode / reverse_geocode
PassArgs ==
    UNION {
        LET tables == Tables(k) IN
        {[kind |-> k, provider |-> p, columns |-> cols, include_details |-> d,
          save_json |-> sj, delay |-> dl, caller |-> t] :
            p \in {kakao, <<" ", "N", "A", "V", "E", "R">>, Bing},
            cols \in {InputColumns("geocode"), InputColumns("reverse"), {"latitude_column"}},
            d \in BOOLEAN, sj \in {None, Path}, dl \in BOOLEAN,
            t \in tables} : k \in {"geocode", "reverse"}}

\* a call about to be made: the table holds the columns it is said to hold
ReadyPasses ==
    {[pc |-> "ready", args |-> a, adapter |-> "", df |-> <<>>, i |-> 0,
      results |-> <<>>, current |-> ResultNone, inflight |-> 0, invoked |-> 0,
      slept |-> 0, exc |-> "no",
      callers |-> CallerTable(a.caller), own |-> FALSE] :
        a \in {x \in PassArgs :
                 /\ (x.kind = "geocode" => (~x.include_details /\ x.save_json = None))
                 /\ (x.save_json # None => x.include_details)
                 /\ (x.columns # InputColumns(x.kind) => (x.delay /\ x.include_details = (x.kind = "reverse") /\ x.save_json = None /\ Len(x.caller) = 1))
                 /\ (x.provider = Bing => (x.delay /\ x.save_json = None /\ Len(x.caller) = 1))}}

Raise(exc) == pass' = [pass EXCEPT !.pc = "raised", !.exc = exc]

\* geocode / reverse_geocode up to the loop: column check, copy, provider
\* lookup, output columns
StartPass ==
    /\ pass.pc = "ready"
    /\ IF ~(InputColumns(pass.args.kind) \subseteq pass.args.columns)
       THEN /\ Raise("ValueError")
            /\ UNCHANGED <<heap, _provider_instances, _api_instance, returned, lastGet>>
       ELSE /\ GetProviderEffect(pass.args.provider)
            /\ IF lastGet'.status # "returned"
               THEN Raise(lastGet'.status)
               ELSE LET c == copy(pass.callers)
                        df == InitColumns(c.df, pass.args.kind,
                                          pass.args.include_details) IN
                    pass' = [pass EXCEPT
                        !.pc = "loop",
                        !.adapter = ClassOf(lastGet'.inst),
                        !.own = c.own,
                        !.df = df,
                        !.callers = IF c.own THEN @ ELSE df]
    /\ UNCHANGED <<env, config, call, requests>>

\* the row the loop is at
Current == pass.df[pass.i + 1]

RowIsEmpty ==
    IF pass.args.kind = "geocode" THEN EmptyAddress(Current.in)
    ELSE EmptyCoords(Current.in[1], Current.in[2])

\* the adapter method is entered for the next row and returns None at once
\* because the input is empty or missing
InvokeSkipped ==
    /\ pass.pc = "loop" /\ pass.i < Len(pass.df)
    /\ RowIsEmpty
    /\ pass' = [pass EXCEPT !.pc = "write", !.current = ResultNone,
                             !.invoked = @ + 1]
    /\ call' = [stage |-> "done", row |-> pass.i + 1, http |-> NoHttp,
                dumpOk |-> TRUE, out |-> Skipped]
    /\ UNCHANGED <<dispatchVars, requests>>

\* the adapter method is entered for the next row and issues its GET
InvokeRequest ==
    /\ pass.pc = "loop" /\ pass.i < Len(pass.df)
    /\ ~RowIsEmpty
    /\ pass' = [pass EXCEPT !.pc = "inflight", !.inflight = @ + 1,
                             !.invoked = @ + 1]
    /\ requests' = requests + 1
    /\ UNCHANGED <<dispatchVars, call>>

\* json_path of the row: None when the dump is off
JsonPath == IF pass.args.save_json = None THEN None ELSE Path

\* the adapter method, given the outcome http of its request
AdapterOutcome(http, dumpOk) ==
    IF pass.args.kind = "geocode"
    THEN GeocodeAddress(pass.adapter, Current.in, http)
    ELSE ReverseGeocodeCoords(pass.adapter, Current.in[1], Current.in[2],
                              pass.args.include_details, JsonPath, dumpOk, http)

\* variant: a request that failed in transport is issued again
ReceiveWithRetry(http, dumpOk) ==
    /\ pass.pc = "inflight"
    /\ IF http = Transport
       THEN /\ requests' = requests + 1
            /\ UNCHANGED <<call, pass>>
       ELSE LET out == AdapterOutcome(http, dumpOk) IN
            /\ call' = [stage |-> "done", row |-> pass.i + 1, http |-> http,
                        dumpOk |-> dumpOk, out |-> out]
            /\ pass' = [pass EXCEPT !.pc = "write", !.inflight = @ - 1,
                                    !.current = out.result]
            /\ UNCHANGED requests
    /\ UNCHANGED dispatchVars

\* the GET completes (or fails) and the adapter method returns or raises
Receive(http, dumpOk) ==
    /\ pass.pc = "inflight"
    /\ LET out == AdapterOutcome(http, dumpOk) IN
       /\ call' = [stage |-> "done", row |-> pass.i + 1, http |-> http,
                   dumpOk |-> dumpOk, out |-> out]
       /\ pass' = IF out.raised = "no"
                  THEN [pass EXCEPT !.pc = "write", !.inflight = @ - 1,
                                    !.current = out.result]
                  ELSE [pass EXCEPT !.pc = "raised", !.inflight = @ - 1,
                                    !.exc = out.raised]
    /\ UNCHANGED <<dispatchVars, requests>>

\* the table the name df refers to after "if result:" and the df.at writes
Written ==
    IF ResultTruthy(pass.current)
    THEN AtSet(pass.df, Current.label,
               Cells(pass.args.kind, pass.args.include_details, pass.current.d))
    ELSE pass.df

\* variant: the delay is never taken
WriteRowWithoutDelay ==
    /\ pass.pc = "write"
    /\ pass' = [pass EXCEPT
            !.df = Written,
            !.callers = IF pass.own THEN @ ELSE Written,
            !.results = Append(@, pass.current),
            !.pc = "loop",
            !.i = @ + 1]
    /\ UNCHANGED <<dispatchVars, call, requests>>

\* "if result:" and the df.at writes; then the delay, if any, is due
WriteRow ==
    /\ pass.pc = "write"
    /\ pass' = [pass EXCEPT
            !.df = Written,
            !.callers = IF pass.own THEN @ ELSE Written,
            !.results = Append(@, pass.current),
            !.pc = IF pass.args.delay THEN "sleep" ELSE "loop",
            !.i = IF pass.args.delay THEN @ ELSE @ + 1]
    /\ UNCHANGED <<dispatchVars, call, requests>>

\* time.sleep(delay) returns and the loop moves on
Sleep ==
    /\ pass.pc = "sleep"
    /\ pass' = [pass EXCEPT !.pc = "loop", !.i = @ + 1, !.slept = @ + 1]
    /\ UNCHANGED <<dispatchVars, call, requests>>

\* the loop is exhausted: the success count is printed and df returned
Return ==
    /\ pass.pc = "loop" /\ pass.i = Len(pass.df)
    /\ pass' = [pass EXCEPT !.pc = "done"]
    /\ UNCHANGED <<dispatchVars, call, requests>>

\* credentials present or absent when the pass starts
BatchEnvs == {[n \in EnvNames |-> Key1], [n \in EnvNames |-> None]}

Init ==
    /\ env \in BatchEnvs
    /\ config = [present |-> FALSE, attrs |-> [n \in EnvNames |-> Missing]]
    /\ InitModule
    /\ call = NoCall
    /\ pass \in ReadyPasses

Next ==
    \/ StartPass
    \/ InvokeSkipped
    \/ InvokeRequest
    \/ \E http \in BatchHttp(pass.args.kind, pass.adapter), dumpOk \in BOOLEAN :
          /\ (pass.args.save_json = None => dumpOk)
          /\ Receive(http, dumpOk)
    \/ WriteRow
    \/ Sleep
    \/ Return

Spec == Init /\ [][Next]_vars

----------------------------------------------------------------------------
(* Batch runner of kakao_geocoding.py: the same two operations on the one   *)
(* Kakao adapter of that module                                            *)

\* a call of the legacy geocode / reverse_geocode about to be made; they
\* take no provider argument, and the field is not read
LegacyReadyPasses ==
    {[p EXCEPT !.adapter = "legacy"] : p \in {q \in ReadyPasses : q.args.provider = kakao}}

Legacy == pass.adapter = "legacy"

\* legacy geocode / reverse_geocode up to the loop: column check, copy,
\* _get_api_instance(), output columns
StartLegacyPass ==
    /\ pass.pc = "ready" /\ Legacy
    /\ IF ~(InputColumns(pass.args.kind) \subseteq pass.args.columns)
       THEN /\ Raise("ValueError")
            /\ UNCHANGED <<heap, _provider_instances, _api_instance, returned, lastGet>>
       ELSE /\ GetApiInstanceEffect
            /\ IF lastGet'.status # "returned"
               THEN Raise(lastGet'.status)
               ELSE LET c == copy(pass.callers)
                        df == InitColumns(c.df, pass.args.kind,
                                          pass.args.include_details) IN
                    pass' = [pass EXCEPT
                        !.pc = "loop",
                        !.own = c.own,
                        !.df = df,
                        !.callers = IF c.own THEN @ ELSE df]
    /\ UNCHANGED <<env, config, call, requests>>

\* idx + 1 is defined for the labels of the default index only
IntegerLabel(idx) == idx = <<"0">>

\* the legacy loops end each iteration with "if (idx + 1) % 10 == 0", which
\* is a TypeError for a label that is not a number
ProgressFails ==
    /\ Legacy /\ pass.pc = "loop" /\ pass.i > 0
    /\ ~IntegerLabel(pass.df[pass.i].label)

\* the TypeError leaves the loop and the function
LegacyProgressRaises ==
    /\ ProgressFails
    /\ Raise("TypeError")
    /\ UNCHANGED <<dispatchVars, call, requests>>

InitModules ==
    /\ env \in BatchEnvs
    /\ config = [present |-> FALSE, attrs |-> [n \in EnvNames |-> Missing]]
    /\ InitModule
    /\ call = NoCall
    /\ pass \in ReadyPasses \cup LegacyReadyPasses

NextModules ==
    \/ ~Legacy /\ StartPass
    \/ StartLegacyPass
    \/ ~ProgressFails /\ InvokeSkipped
    \/ ~ProgressFails /\ InvokeRequest
    \/ \E http \in BatchHttp(pass.args.kind, pass.adapter), dumpOk \in BOOLEAN :
          /\ (pass.args.save_json = None => dumpOk)
          /\ Receive(http, dumpOk)
    \/ WriteRow
    \/ Sleep
    \/ LegacyProgressRaises
    \/ ~ProgressFails /\ Return

\* a batch pass of either module
SpecModules == InitModules /\ [][NextModules]_vars

----------------------------------------------------------------------------
(* Properties of the dispatch layer and of the constructors *)

\* the objects a dispatch cache has constructed for provider p
BuiltBy(cache, p) ==
    {i \in 1..Len(heap) : heap[i].via = cache /\ heap[i].cls = p}

C8_OneInstance ==
    /\ \A r1 \in returned, r2 \in returned :
          (r1.cache = r2.cache /\ r1.p = r2.p) => r1.inst = r2.inst
    /\ \A p \in Providers : Cardinality(BuiltBy("geocoding", p)) <= 1
    /\ Cardinality(BuiltBy("kakao_geocoding", kakao)) <= 1

C8_EntryKept ==
    /\ \A p \in Providers :
          _provider_instances[p] # 0 =>
              _provider_instances'[p] = _provider_instances[p]
    /\ _api_instance # 0 => _api_instance' = _api_instance

\* C8: every successful dispatch call for one provider returns the same
\* adapter instance; each cache constructs at most one adapter per provider
\* and an entry, once cached, is never replaced or removed.
C8_SingletonPerProvider == [](C8_OneInstance) /\ [][C8_EntryKept]_vars

\* a second call, spelt differently, was served from the cache
C8_Witness ==
    /\ lastGet.fn = "_get_provider"
    /\ lastGet.status = "returned"
    /\ ~lastGet.built
    /\ lastGet.name \notin Providers
    /\ lastGet.inst = _provider_instances[naver]
    /\ _provider_instances[kakao] # 0

\* the name as the claim reads it: trimmed and case-folded
TrimFold(name) == lower(strip(name))

\* C9 as stated: every string that is not "kakao" or "naver" after trimming
\* and case-folding is rejected with the invalid-argument error.
C9_RejectsAllOthers ==
    (lastGet.fn = "_get_provider" /\ lastGet.name # None
        /\ TrimFold(lastGet.name) \notin Providers)
    => lastGet.status = "ValueError"

\* a name _get_provider accepts: missing or empty (read as "kakao"), or one
\* of the two identifiers after trimming and case-folding
AcceptedName(name) == name = None \/ name = EmptyStr \/ TrimFold(name) \in Providers

C9_RejectedOrAccepted ==
    lastGet.fn = "_get_provider" =>
        /\ ~AcceptedName(lastGet.name) =>
              (lastGet.status = "ValueError" /\ ~lastGet.built /\ lastGet.inst = 0)
        /\ lastGet.status = "returned" => AcceptedName(lastGet.name)

C9_RejectionIsInert ==
    (lastGet'.fn = "_get_provider" /\ lastGet'.status = "ValueError")
    => UNCHANGED <<heap, _provider_instances, _api_instance, returned>>

\* C9 (amended): a missing or empty name is read as "kakao"; every other
\* name that is not "kakao" or "naver" after trimming and case-folding fails
\* with the invalid-argument error, only accepted names ever succeed, and a
\* rejected call constructs nothing and leaves the caches unchanged.
C9_ProviderValidation == [](C9_RejectedOrAccepted) /\ [][C9_RejectionIsInert]_vars

\* an unsupported name was rejected while an adapter was already cached
C9_Witness ==
    /\ lastGet.fn = "_get_provider"
    /\ lastGet.status = "ValueError"
    /\ TrimFold(lastGet.name) = <<"b", "i", "n", "g">>
    /\ _provider_instances[kakao] # 0

\* C10: no adapter object exists with an empty or missing credential: the
\* Kakao adapter always holds a non-empty API key, the Naver adapter a
\* non-empty key id and key.
C10_NoEmptyCredential ==
    \A i \in 1..Len(heap) :
        /\ ~Falsy(heap[i].api_key)
        /\ heap[i].cls = naver => ~Falsy(heap[i].api_key_id)

----------------------------------------------------------------------------
(* Properties of single-record calls *)

Done(op) == call.stage = "done" /\ call.op = op

C1_EmptyInput ==
    \/ call.op = "geocode" /\ call.address \in {None, NaN, EmptyStr}
    \/ call.op = "reverse" /\ (call.longitude \in {None, NaN} \/ call.latitude \in {None, NaN})

\* C1: a call with an empty or missing address, or with a missing longitude
\* or latitude, returns None and issues no HTTP request.
C1_EmptyInputSkipsNetwork ==
    (call.stage = "done" /\ C1_EmptyInput) =>
        /\ call.out.result.none
        /\ call.out.raised = "no"
        /\ ~call.out.requested
        /\ requests = 0

\* the Naver reverse method returned for a missing latitude
C1_Witness ==
    /\ Done("reverse") /\ call.adapter = "naver"
    /\ call.longitude = Lon /\ call.latitude = NaN
    /\ call.out.result.none /\ requests = 0

\* the first entry of the vendor's result array
FirstDoc == call.http.body.docs[1]

\* the vendor's road_address / address object carries result key k
KakaoSupplies(k) ==
    IF k \in DOMAIN RoadSource
    THEN FirstDoc.road_address.st = "obj" /\ FirstDoc.road_address.f[RoadSource[k]] # Missing
    ELSE FirstDoc.address.st = "obj" /\ FirstDoc.address.f[AddressSource[k]] # Missing

\* the entries of the Naver result array with a given name
Named(name) ==
    {i \in 1..Len(call.http.body.docs) :
        call.http.body.docs[i].shape = "dict" /\ call.http.body.docs[i].name = name}

\* the keys a Naver response cannot fill: the fixed blanks, the road keys
\* without a roadaddr entry, the lot-number key without an addr entry
NaverUnsupplied ==
    NaverBlankKeys \cup
    (IF Named(roadaddr) = {} THEN {"road_address", "road_name", "road_building_name"} ELSE {}) \cup
    (IF Named(addr) = {} THEN {"address"} ELSE {})

TwentyKeys == {"road_address", "address"} \cup Range(detail_columns)

\* C5: with detail mode on every reverse result has exactly the keys
\* road_address, address and the 18 detail_columns, and each key the vendor
\* response did not supply is the empty string.
C5_FixedTwentyKeys ==
    (Done("reverse") /\ call.include_details /\ ~call.out.result.none) =>
        /\ DOMAIN call.out.result.d = TwentyKeys
        /\ Cardinality(DOMAIN call.out.result.d) = 20
        /\ call.adapter \in {"kakao", "legacy"} =>
              \A k \in TwentyKeys : ~KakaoSupplies(k) => call.out.result.d[k] = EmptyStr
        /\ call.adapter = "naver" =>
              \A k \in NaverUnsupplied : call.out.result.d[k] = EmptyStr

\* Kakao answered with a lot-number address lacking h_code and no road address
C5_Witness ==
    /\ Done("reverse") /\ call.adapter = "kakao" /\ call.include_details
    /\ ~call.out.result.none
    /\ FirstDoc.road_address.st = "missing"
    /\ FirstDoc.address.st = "obj"
    /\ FirstDoc.address.f["h_code"] = Missing
    /\ call.out.result.d["address_h_code"] = EmptyStr
    /\ call.out.result.d["address_b_code"] = <<"a", "6">>

\* a successful Kakao response whose first document is an object, with the
\* dump disabled
C7_KakaoAnswered ==
    /\ Done("reverse") /\ call.adapter \in {"kakao", "legacy"}
    /\ call.save_json = None
    /\ call.http.kind = "response" /\ call.http.status = 200
    /\ call.http.body.shape = "list" /\ call.http.body.docs # <<>>
    /\ FirstDoc.shape = "dict"

NoObject(o) == o.st \in {"missing", "null"}

\* C7: when the first document has no road_address (key missing or null) but
\* has an address, the result is not None, every road_* field is "" and the
\* address_* fields are those of the address object; and symmetrically.
C7_OneNamespaceAbsent ==
    C7_KakaoAnswered =>
        /\ (NoObject(FirstDoc.road_address) /\ Truthy(FirstDoc.address)) =>
              /\ ~call.out.result.none
              /\ \A k \in DOMAIN call.out.result.d :
                    IF k \in DOMAIN RoadSource
                    THEN call.out.result.d[k] = EmptyStr
                    ELSE call.out.result.d[k] =
                            Get(FirstDoc.address.f, AddressSource[k], EmptyStr)
        /\ (NoObject(FirstDoc.address) /\ Truthy(FirstDoc.road_address)) =>
              /\ ~call.out.result.none
              /\ \A k \in DOMAIN call.out.result.d :
                    IF k \in DOMAIN AddressSource
                    THEN call.out.result.d[k] = EmptyStr
                    ELSE call.out.result.d[k] =
                            Get(FirstDoc.road_address.f, RoadSource[k], EmptyStr)

----------------------------------------------------------------------------
(* Properties of the batch runner *)

\* the sequential program always takes its next step: requests carry a
\* timeout and time.sleep returns
SpecLive == Spec /\ WF_vars(Next)

\* the pass stopped with an exception before its loop began
RejectedAtEntry == pass.i = 0 /\ pass.results = <<>> /\ requests = 0 /\ call = NoCall

C2_CallNeverRaises ==
    /\ call.stage = "done" => call.out.raised = "no"
    /\ pass.pc = "raised" => RejectedAtEntry

\* the loop has been entered
InLoop == pass.pc \in {"loop", "inflight", "write", "sleep"}

Finished == pass.pc = "done" /\ Len(pass.results) = Len(pass.args.caller)

\* C2: whatever the HTTP request of a row does (error status, transport
\* exception, unparseable or oddly shaped body), the adapter call returns a
\* mapping or None and never raises, so a pass that entered its loop is never
\* aborted and goes on to process every row
C2_FailureIsolation == [](C2_CallNeverRaises) /\ (InLoop ~> Finished)

\* a row whose request failed with an exception has been passed and the next
\* row's request is under way
C2_Witness ==
    /\ pass.pc = "inflight" /\ pass.i = 1
    /\ call.row = 1 /\ call.http = Transport /\ call.out.result = ResultNone

\* the output fields row r must hold for the result the adapter returned
Expected(r) ==
    IF ResultTruthy(pass.results[r])
    THEN Cells(pass.args.kind, pass.args.include_details, pass.results[r].d)
    ELSE [c \in OutputColumns(pass.args.kind, pass.args.include_details) |-> None]

\* C3: in the returned table, whatever the row labels, row i is input row i
\* and its output fields hold the result the adapter returned for input row
\* i, or are empty when that result was None
C3_RowsCorrespond ==
    pass.pc = "done" =>
        /\ Len(pass.df) = Len(pass.args.caller)
        /\ \A r \in 1..Len(pass.df) :
              /\ pass.df[r].label = pass.args.caller[r].label
              /\ pass.df[r].in = pass.args.caller[r].in
              /\ pass.df[r].out = Expected(r)

\* the output fields of the rows already written from a successful result
\* are left alone by the step
C4_Kept ==
    \A r \in 1..Len(pass.results) :
        ResultTruthy(pass.results[r]) => pass'.df[r].out = pass.df[r].out

\* C4: once a row's output fields have been written from a successful
\* result, no later step of the pass changes them
C4_WrittenOnce == [][C4_Kept]_vars

\* the row last processed, once its write step is over
LastRow == call.row

AfterWrite ==
    /\ call.stage = "done"
    /\ \/ pass.pc = "sleep" /\ pass.i + 1 = call.row
       \/ pass.pc \in {"loop", "done"} /\ pass.i = call.row

\* the vendor answered 200 with a well-formed body holding no entries
ZeroEntries == call.stage = "done" /\ call.http = Response(200, Body("list", <<>>))

FirstOfItsLabel(r) == \A q \in 1..(r - 1) : pass.df[q].label # pass.df[r].label

C6_AdapterReturnsNone ==
    (pass.args.kind = "reverse" /\ pass.pc = "write" /\ ZeroEntries) =>
        pass.current = ResultNone

C6_RowStaysNull ==
    (pass.args.kind = "reverse" /\ AfterWrite /\ ZeroEntries /\ FirstOfItsLabel(LastRow)) =>
        \A c \in DOMAIN pass.df[LastRow].out : pass.df[LastRow].out[c] = None

C6_NothingWritten ==
    (pass.args.kind = "reverse" /\ pass.pc = "write" /\ ZeroEntries) => pass'.df = pass.df

ColumnMissing ==
    IF pass.args.kind = "geocode" THEN "address_column" \notin pass.args.columns
    ELSE ~({"longitude_column", "latitude_column"} \subseteq pass.args.columns)

\* the provider name is neither identifier after trimming and case-folding
ProviderUnsupported == TrimFold(pass.args.provider) \notin Providers

C11_NoPartialExecution ==
    (ColumnMissing \/ ProviderUnsupported) =>
        /\ pass.pc \in {"ready", "raised"}
        /\ pass.df = <<>> /\ pass.results = <<>> /\ pass.i = 0
        /\ call = NoCall /\ requests = 0
        /\ pass.pc = "raised" => pass.exc = "ValueError"

C11_RaisesAtOnce ==
    (pass.pc = "ready" /\ (ColumnMissing \/ ProviderUnsupported)) => pass'.pc = "raised"

\* C11: a pass called with a missing input column or an unsupported provider
\* name raises in its first step: no row is processed, no adapter method is
\* entered and no HTTP request is issued
C11_FailFast == [](C11_NoPartialExecution) /\ [][C11_RaisesAtOnce]_vars

\* a reverse pass over a table without its longitude column was refused
C11_Witness ==
    /\ pass.pc = "raised" /\ pass.exc = "ValueError"
    /\ pass.args.kind = "reverse" /\ ColumnMissing /\ ~ProviderUnsupported
    /\ Len(pass.args.caller) = 1 /\ requests = 0 /\ heap = <<>>

\* the vendor rejected the authentication of the last request
AuthRejected ==
    /\ call.stage = "done" /\ call.http.kind = "response"
    /\ \/ call.http.status = 403
       \/ pass.adapter = "naver" /\ call.http.status = 401

C12_DiagnosedAsNull ==
    AuthRejected =>
        /\ "auth" \in call.out.diag
        /\ call.out.result = ResultNone /\ call.out.raised = "no"
        /\ pass.pc # "raised"
        /\ pass.pc = "write" => pass.current = ResultNone

C12_PassGoesOn ==
    (AuthRejected /\ pass.pc = "write") =>
        /\ pass'.pc \in {"sleep", "loop"}
        /\ pass'.df = pass.df
        /\ pass'.results = Append(pass.results, ResultNone)

\* C12: when the vendor rejects authentication (403 for Kakao, 401 or 403
\* for Naver) the adapter prints the authentication diagnostic and returns
\* None, the value a no-match gives, and the pass moves on to the next row
C12_AuthFailureIsNull == [](C12_DiagnosedAsNull) /\ [][C12_PassGoesOn]_vars

\* Kakao answered 403 for row 1 and the request of row 2 is under way
C12_Witness ==
    /\ pass.adapter = "kakao" /\ pass.pc = "inflight" /\ pass.i = 1
    /\ call.row = 1 /\ call.http.status = 403
    /\ "auth" \in call.out.diag /\ pass.results = <<ResultNone>>

\* a Naver reverse call returned a mapping
NaverAnswered == Done("reverse") /\ call.adapter = "naver" /\ ~call.out.result.none

\* position of the first entry with a given name, 0 when there is none
FirstNamed(name) ==
    IF Named(name) = {} THEN 0
    ELSE CHOOSE i \in Named(name) : \A j \in Named(name) : i <= j

Entry(i) == call.http.body.docs[i]

\* areaN.name of an entry, "" for an entry that is not an object
RegionOf(i, area) ==
    IF Entry(i).shape = "dict" THEN Get(Entry(i).region, area, EmptyStr) ELSE EmptyStr

AreaOf == [n \in {"1", "2", "3"} |-> "area" \o n]

\* the road fields of the result are those of entry i (all "" for i = 0)
RoadFieldsFrom(i) ==
    LET d == call.out.result.d IN
    /\ d["road_address"] = IF i = 0 THEN EmptyStr ELSE _naver_result_text(Entry(i))
    /\ call.include_details =>
          /\ d["road_name"] = IF i = 0 THEN EmptyStr ELSE _naver_road_name(Entry(i))
          /\ d["road_building_name"] =
                IF i = 0 THEN EmptyStr ELSE _naver_building_name(Entry(i))
          /\ \A n \in DOMAIN AreaOf :
                d["road_region_" \o n \o "depth"] =
                   IF i = 0 THEN EmptyStr ELSE RegionOf(i, AreaOf[n])

\* the lot-number fields of the result are those of entry i
LotFieldsFrom(i) ==
    LET d == call.out.result.d IN
    /\ d["address"] = IF i = 0 THEN EmptyStr ELSE _naver_result_text(Entry(i))
    /\ call.include_details =>
          \A n \in DOMAIN AreaOf :
             d["address_region_" \o n \o "depth"] =
                IF i = 0 THEN EmptyStr ELSE RegionOf(i, AreaOf[n])

NeitherNamed == Named(roadaddr) = {} /\ Named(addr) = {}

\* the statement as first made: road fields from the first "roadaddr"
\* entry, lot-number fields from the first "addr" entry, and both from the
\* first entry of the array when neither name occurs
C13_NamedEntryElseFirst ==
    NaverAnswered =>
        /\ RoadFieldsFrom(IF NeitherNamed THEN 1 ELSE FirstNamed(roadaddr))
        /\ LotFieldsFrom(IF NeitherNamed THEN 1 ELSE FirstNamed(addr))

\* the entry the shared region names are read from
BaseEntry ==
    IF FirstNamed(roadaddr) # 0 THEN FirstNamed(roadaddr)
    ELSE IF FirstNamed(addr) # 0 THEN FirstNamed(addr) ELSE 1

\* C13 (amended): road_address, road_name and road_building_name come from
\* the first entry named "roadaddr" and address from the first entry named
\* "addr", each "" when no entry has the name; the region names of both
\* namespaces come from one entry: the first "roadaddr", else the first
\* "addr", else the first entry of the array
C13_NaverSelection ==
    NaverAnswered =>
        LET d == call.out.result.d
            road == FirstNamed(roadaddr)
            lot  == FirstNamed(addr) IN
        /\ d["road_address"] = IF road = 0 THEN EmptyStr ELSE _naver_result_text(Entry(road))
        /\ d["address"] = IF lot = 0 THEN EmptyStr ELSE _naver_result_text(Entry(lot))
        /\ call.include_details =>
              /\ d["road_name"] = IF road = 0 THEN EmptyStr ELSE _naver_road_name(Entry(road))
              /\ d["road_building_name"] =
                    IF road = 0 THEN EmptyStr ELSE _naver_building_name(Entry(road))
              /\ \A n \in DOMAIN AreaOf :
                    /\ d["road_region_" \o n \o "depth"] = RegionOf(BaseEntry, AreaOf[n])
                    /\ d["address_region_" \o n \o "depth"] = RegionOf(BaseEntry, AreaOf[n])

\* two "roadaddr" entries with different texts: the first one was used
C13_Witness ==
    /\ NaverAnswered /\ call.include_details
    /\ Cardinality(Named(roadaddr)) = 2
    /\ _naver_result_text(Entry(1)) # _naver_result_text(Entry(2))
    /\ call.out.result.d["road_address"] = _naver_result_text(Entry(1))
    /\ call.out.result.d["address"] = EmptyStr

\* a forward call returned a mapping
ForwardAnswered == Done("geocode") /\ ~call.out.result.none

\* the vendor's array holds no candidate (absent, null or empty array)
NoCandidate ==
    /\ call.http.kind = "response" /\ call.http.status = 200
    /\ call.http.body.shape \in {"nokey", "null", "list"}
    /\ call.http.body.docs = <<>>

\* the coordinate text v of a candidate is a decimal literal
Numeric(v) == v \notin {Missing, None} /\ IsDecimal(strip(v))

\* C14: a non-null forward result carries as longitude and latitude the
\* numbers the first candidate gives as x and y; a response with no
\* candidate gives None
C14_EqualsFirstCandidate ==
    /\ ForwardAnswered =>
          /\ Numeric(FirstDoc.f["x"]) /\ Numeric(FirstDoc.f["y"])
          /\ call.out.result.d["longitude"] = FloatOf(strip(FirstDoc.f["x"]))
          /\ call.out.result.d["latitude"] = FloatOf(strip(FirstDoc.f["y"]))
    /\ (Done("geocode") /\ NoCandidate) => call.out.result.none

\* the dump of the last request's response was attempted and its write failed
DumpFailed ==
    /\ call.stage = "done" /\ pass.args.save_json # None
    /\ StatusAndParse(call.http) = "none" /\ ~call.dumpOk

C15_NothingEscapes ==
    /\ DumpFailed => (call.out.raised = "no" /\ pass.pc # "raised")
    /\ (DumpFailed /\ pass.pc = "done") => Len(pass.results) = Len(pass.args.caller)

C15_LoopGoesOn ==
    (DumpFailed /\ pass.pc = "write") => pass'.pc \in {"sleep", "loop"}

\* C15: in a reverse pass with the dump enabled, a failed write of a row's
\* dump raises nothing to the caller and the loop goes on: the pass ends
\* only after every row has been processed
C15_DumpFailureIsolated == [](C15_NothingEscapes) /\ [][C15_LoopGoesOn]_vars

\* the dump of row 1 failed and the request of row 2 is under way
C15_Witness ==
    /\ DumpFailed /\ call.row = 1
    /\ pass.pc = "inflight" /\ pass.i = 1
    /\ Len(call.http.body.docs) = 1

\* rows 1..n have been answered, written and followed by their delay
RowsSettled(n) ==
    /\ Len(pass.results) = n
    /\ pass.slept = IF pass.args.delay THEN n ELSE 0

\* C16: at most one request is in flight, and while the request of row
\* i+1 is in flight the answers of rows 1..i have been received, their
\* output fields written and their delays taken
C16_OneAtATime ==
    /\ pass.inflight \in {0, 1}
    /\ pass.inflight = 1 <=> pass.pc = "inflight"
    /\ pass.pc = "inflight" =>
          /\ RowsSettled(pass.i)
          /\ requests <= pass.i + 1
          /\ pass.i > 0 => (call.stage = "done" /\ call.row = pass.i)

\* the request of row 2 is in flight after row 1 was answered with a
\* match, written and followed by the delay
C16_Witness ==
    /\ pass.pc = "inflight" /\ pass.i = 1 /\ pass.args.delay
    /\ requests = 2 /\ pass.slept = 1
    /\ ResultTruthy(pass.results[1])
    /\ pass.df[1].out = Expected(1)

\* adapter calls and requests made so far never exceed the rows reached
C17_Counts ==
    /\ requests <= pass.invoked
    /\ pass.invoked <= Len(pass.args.caller)
    /\ pass.invoked = pass.i + (IF pass.pc \in {"inflight", "write", "sleep"} THEN 1 ELSE 0)
    /\ pass.pc = "done" =>
          /\ pass.invoked = Len(pass.args.caller)
          /\ requests <= Len(pass.args.caller)

\* a request is issued only by entering the adapter for a new row, never
\* again for a row already entered
C17_NoRetry ==
    requests' # requests =>
        /\ requests' = requests + 1
        /\ pass'.invoked = pass.invoked + 1
        /\ pass.pc = "loop"

Ended == pass.pc \in {"done", "raised"}

\* an upper bound on the steps the pass has left
StepsLeft ==
    IF Ended THEN 0
    ELSE IF pass.pc = "ready" THEN 4 * Len(pass.args.caller) + 2
    ELSE 4 * (Len(pass.args.caller) - pass.i) + 1 -
         (CASE pass.pc = "loop" -> 0 [] pass.pc = "inflight" -> 1
            [] pass.pc = "write" -> 2 [] pass.pc = "sleep" -> 3)

\* a pass that has not ended can take a step, and every step brings the
\* end nearer
C17_CanStep == ~Ended => ENABLED Next

C17_StepsDecrease == StepsLeft' < StepsLeft

\* C17: a pass over n rows ends after entering the adapter exactly once per
\* row; each entry issues at most one GET and a failed request is not
\* repeated, so at most n requests are issued
C17_OncePerRow ==
    /\ [](C17_Counts /\ C17_CanStep /\ StepsLeft >= 0)
    /\ [][C17_NoRetry /\ C17_StepsDecrease]_vars

\* a pass over two rows ended with two requests, the first of which failed
C17_Witness ==
    /\ pass.pc = "done" /\ Len(pass.args.caller) = 2
    /\ pass.invoked = 2 /\ requests = 2
    /\ pass.results[1] = ResultNone /\ ResultTruthy(pass.results[2])

\* C18: a reverse result produced with detail mode off has exactly the two
\* keys road_address and address, whichever adapter produced it
C18_TwoKeysWithoutDetails ==
    (Done("reverse") /\ ~call.include_details /\ ~call.out.result.none) =>
        DOMAIN call.out.result.d = {"road_address", "address"}

\* the fields the Naver response has no source for
NaverNotProvided ==
    {"road_zone_no", "road_main_building_no", "road_sub_building_no",
     "road_underground_yn", "address_region_3depth_h", "address_h_code",
     "address_b_code", "address_main_no", "address_sub_no",
     "address_mountain_yn"}

\* C19: in a Naver reverse result with detail mode on the region fields of
\* the two namespaces are equal level by level, and the ten fields the
\* vendor does not provide are "", whatever the response holds
C19_NaverSharedAndBlank ==
    (NaverAnswered /\ call.include_details) =>
        LET d == call.out.result.d IN
        /\ \A n \in DOMAIN AreaOf :
              /\ "road_region_" \o n \o "depth" \in DOMAIN d
              /\ "address_region_" \o n \o "depth" \in DOMAIN d
              /\ d["road_region_" \o n \o "depth"] = d["address_region_" \o n \o "depth"]
        /\ \A k \in NaverNotProvided : k \in DOMAIN d /\ d[k] = EmptyStr

\* a "roadaddr" and an "addr" entry with different regions were answered:
\* both namespaces carry the regions of the "roadaddr" entry
C19_Witness ==
    /\ NaverAnswered /\ call.include_details
    /\ FirstNamed(roadaddr) = 2 /\ FirstNamed(addr) = 1
    /\ Entry(1).region # Entry(2).region
    /\ call.out.result.d["address_region_1depth"] = <<"S">>
    /\ call.out.result.d["road_region_1depth"] = <<"S">>
    /\ call.out.result.d["address_main_no"] = EmptyStr

\* the vendor answered 200 with an array whose first entry is an object
AnsweredWithMatch ==
    /\ call.http.kind = "response" /\ call.http.status = 200
    /\ call.http.body.shape = "list" /\ Len(call.http.body.docs) >= 1
    /\ FirstDoc.shape = "dict"

\* what the same call returns with the dump disabled
WithoutDump ==
    ReverseGeocodeCoords(call.adapter, call.longitude, call.latitude,
                         call.include_details, None, TRUE, call.http)

\* C20: when the vendor answered with a match, the result of a reverse call
\* is the same whether the dump was written, failed to be written or was
\* disabled
C20_DumpLeavesResult ==
    (Done("reverse") /\ AnsweredWithMatch) => call.out.result = WithoutDump.result

----------------------------------------------------------------------------
(* Failed construction and the dispatch caches *)

\* heap index i denotes an adapter whose __init__ ran to its end: the
\* credentials it resolved were assigned to the object
FullyConstructed(i) ==
    /\ i \in 1..Len(heap)
    /\ heap[i].api_key # None
    /\ heap[i].cls = naver => heap[i].api_key_id # None

C21_CacheHoldsBuilt ==
    /\ \A p \in Providers :
          _provider_instances[p] # 0 =>
              /\ FullyConstructed(_provider_instances[p])
              /\ heap[_provider_instances[p]].cls = p
    /\ _api_instance # 0 =>
          (FullyConstructed(_api_instance) /\ heap[_api_instance].cls = kakao)
    /\ \A r \in returned : FullyConstructed(r.inst)

\* a dispatch call that ends in the constructor's error adds no entry
C21_FailureLeavesNoEntry ==
    lastGet'.status = "CredentialError" =>
        /\ UNCHANGED <<heap, _provider_instances, _api_instance, returned>>
        /\ lastGet'.fn = "_get_provider" =>
              _provider_instances'[Normalise(lastGet'.name)] = 0
        /\ lastGet'.fn = "_get_api_instance" => _api_instance' = 0

\* the step is a dispatch call (the environment is read, not written)
CallOf(fn) == env' = env /\ lastGet'.fn = fn

\* what a call that finds no entry must do: run the constructor in the
\* environment of the call, cache and return the new object if it succeeds
ConstructsAnew(r, entry) ==
    IF r.raised = "no"
    THEN /\ lastGet'.status = "returned"
         /\ lastGet'.built
         /\ lastGet'.inst = Len(heap) + 1
         /\ entry = Len(heap) + 1
         /\ Len(heap') = Len(heap) + 1
         /\ heap'[Len(heap) + 1].api_key = r.api_key
         /\ heap'[Len(heap) + 1].api_key_id = r.api_key_id
    ELSE lastGet'.status = "CredentialError"

C21_RetryConstructs ==
    /\ \A p \in Providers :
          (CallOf("_get_provider") /\ Normalise(lastGet'.name) = p
              /\ _provider_instances[p] = 0)
          => ConstructsAnew(ConstructFor(p), _provider_instances'[p])
    /\ (CallOf("_get_api_instance") /\ _api_instance = 0)
          => ConstructsAnew(KakaoInit(None), _api_instance')

\* C21: a dispatch call whose adapter construction fails leaves the cache
\* without an entry for that provider; the caches (and the instances handed
\* out) only ever hold fully constructed adapters, and a later call for the
\* same name runs the constructor again in the environment of that call.
C21_FailedConstructionNotCached ==
    [](C21_CacheHoldsBuilt) /\ [][C21_FailureLeavesNoEntry /\ C21_RetryConstructs]_vars

\* the Naver construction failed while the Kakao adapter was cached, nothing
\* was cached for Naver, and the credentials supplied since then would let
\* the next call construct it
C21_Witness ==
    /\ lastGet.fn = "_get_provider"
    /\ lastGet.status = "CredentialError"
    /\ Normalise(lastGet.name) = naver
    /\ _provider_instances[naver] = 0
    /\ _provider_instances[kakao] # 0
    /\ ConstructFor(naver).raised = "no"

----------------------------------------------------------------------------
(* The caller's table *)

\* the pass has written at least one output cell of its own table
SomeCellWritten ==
    \E r \in 1..Len(pass.df) : \E c \in DOMAIN pass.df[r].out : pass.df[r].out[c] # None

\* C22: a forward or reverse batch pass of either module never modifies the
\* table passed in by the caller: the output columns are added to and written
\* in a copy, so at every point of the pass, whether it goes on to return or
\* to raise, the caller's table has the columns and values it had when the
\* call was made, and the table being written is an object of the pass.
C22_CallerTableUnmodified ==
    /\ pass.callers = CallerTable(pass.args.caller)
    /\ pass.pc \in {"loop", "inflight", "write", "sleep", "done"} => pass.own
    /\ SomeCellWritten => pass.own

\* a legacy pass over two rows wrote cells of its own table and then raised
\* out of the loop
C22_Witness ==
    /\ pass.pc = "raised" /\ pass.exc = "TypeError"
    /\ Len(pass.args.caller) = 2
    /\ SomeCellWritten
    /\ pass.df # pass.callers

====
